---- MODULE Spec2Model ----
(***************************************************************************)
(* State-machine model of the deals-to-meals backend (src/server.js).      *)
(*                                                                         *)
(* Part I   GET /api/deals: app token, batched category fan-out,           *)
(*          dedup / sort / cap aggregation.                                *)
(* Part II  the in-memory credential map krogerTokens and the handlers     *)
(*          that read and write it (/api/coupons, /api/cart,               *)
(*          /auth/kroger/callback, /auth/kroger/disconnect).               *)
(* Part III GET /api/stores and POST /api/recipes/search (parameter check, *)
(*          upstream search, enrichment of a recipe with sale items).      *)
(* Part IV  the rows of the relational store and the handlers of           *)
(*          /api/profile and /api/recipes/saved.                           *)
(*                                                                         *)
(* Node runs every handler on one event loop: code between two awaits is   *)
(* one atomic step, and every await is a point where other handlers and    *)
(* other upstream completions interleave.  Each action below is one such   *)
(* run-to-next-await segment.                                              *)
(*                                                                         *)
(* Prices are integers (cents); a product carries only the fields the      *)
(* handler computes with (productId, items[0].price.regular/promo).        *)
(***************************************************************************)
EXTENDS Integers, Sequences, FiniteSets, TLC

VARIABLES
    DEAL_CATEGORIES,  \* the category list (a sequence of distinct terms)
    batchSize,        \* the fan-out width of the batched handler
    upstream,         \* response bodies the catalog API may return in this run
    deals,            \* per /api/deals request: the handler's locals and response
    stores,           \* per /api/stores request: the handler's locals and response
    searches,         \* per /api/recipes/search request: locals and response
    db,               \* the relational store's rows and the requests that use them
    krogerTokens,     \* the Map: key -> reference of the stored credential object
    heap,             \* the credential objects, by reference
    kroger_connected, \* profiles.kroger_connected in the relational store
    now,              \* Date.now()
    env,              \* what the collaborators may answer in this run
    reqs,             \* per in-flight user request: the handler's locals and response
    grants,           \* history: per object, the token response stored in it last
    disconnected      \* history: keys disconnected and not stored again since

dealVars == <<DEAL_CATEGORIES, batchSize, upstream, deals>>

credVars == <<krogerTokens, heap, kroger_connected, now, env, reqs, grants,
              disconnected>>

appVars == <<stores, searches, db>>

vars == <<DEAL_CATEGORIES, batchSize, upstream, deals, stores, searches, db,
          krogerTokens, heap, kroger_connected, now, env, reqs, grants,
          disconnected>>

----------------------------------------------------------------------------
(* Bounds of the model and constants of the program *)

MaxCats == 4          \* longest category list explored
MaxBatch == 2         \* widest batch explored
CodeBatchSize == 8    \* const batchSize = 8
CodeNumCategories == 63 \* DEAL_CATEGORIES.length
DealCap == 200        \* .slice(0, 200)
MsPerSecond == 1000   \* refreshed.expires_in * 1000
MaxTok == 3           \* access tokens issued per code exchange
MaxObjs == 3          \* credential objects alive at a time
MaxTicks == 1         \* clock ticks per run
NegInfinity == -1000000  \* stands for Math.round(-Infinity) = -Infinity
MaxLen == 4           \* longest merged list given to the aggregation alone
MaxCap == 3
MaxItems == 2
MaxUsed == 2
MaxRows == 2
MaxEdits == 1           \* largest cap given to the aggregation alone

----------------------------------------------------------------------------
(* Upstream product records *)

Product(id, regular, promo, hasPromo) ==
    [productId |-> id, regular |-> regular, promo |-> promo, hasPromo |-> hasPromo]

Milk    == Product(1, 400, 300, TRUE)    \* 25 % off
Eggs    == Product(2, 500, 450, TRUE)    \* 10 % off
Plain   == Product(3, 300, 0, FALSE)     \* no promo field
ZeroPro == Product(3, 300, 0, TRUE)      \* promo = 0
Negative == Product(3, 300, -50, TRUE)   \* promo below 0
Tie     == Product(4, 800, 600, TRUE)    \* 25 % off, another id
Dearer  == Product(2, 400, 500, TRUE)    \* promo above regular
Gratis  == Product(5, 0, 100, TRUE)      \* regular = 0: the quotient is -Infinity
Half    == Product(6, 40, 17, TRUE)      \* 57.5 % off: an exact half

Bodies ==
    { <<>>,
      <<Milk, Milk, Eggs>>,
      <<Eggs, Tie, Milk>>,
      <<Plain, ZeroPro, Negative, Dearer, Gratis, Half>> }

----------------------------------------------------------------------------
(* Pure functions of the handler *)

\* variant: any record with a promo field passes
HasPromoField(p) == p.hasPromo

\* p.items?.[0]?.price?.promo > 0
HasPromo(p) == p.hasPromo /\ p.promo > 0

\* price pairs (in cents) for which the double ((regular - promo) / regular) * 100
\* falls just below the exact quotient: (0.40 - 0.17) / 0.40 * 100 is
\* 57.49999999999999
RoundedDown == { <<40, 17>> }

\* ((regular - promo) / regular) * 100 as the double the engine computes, in
\* thousandths (rounded down)
Quotient(regular, promo) ==
    ((100000 * (regular - promo)) \div regular)
      - (IF <<regular, promo>> \in RoundedDown THEN 1 ELSE 0)

\* Math.round(((regular - promo) / regular) * 100); Math.round is floor(x + 1/2)
PctOff(regular, promo) ==
    IF regular = 0
    THEN (IF promo > 0 THEN NegInfinity ELSE 0)
    ELSE (Quotient(regular, promo) + 500) \div 1000

\* the object literal of the .map callback
ToDeal(p, category) ==
    [ id           |-> p.productId,
      category     |-> category,
      regularPrice |-> p.regular,
      salePrice    |-> p.promo,
      savings      |-> p.regular - p.promo,
      pctOff       |-> PctOff(p.regular, p.promo) ]

RECURSIVE SelectMap(_, _, _)
SelectMap(body, category, k) ==
    IF k > Len(body) THEN <<>>
    ELSE (IF HasPromo(body[k]) THEN <<ToDeal(body[k], category)>> ELSE <<>>)
         \o SelectMap(body, category, k + 1)

\* (data.data || []).filter(promo > 0).map(...)
Products(body, category) == SelectMap(body, category, 1)

RECURSIVE DedupFrom(_, _, _)
DedupFrom(s, k, seen) ==
    IF k > Len(s) THEN <<>>
    ELSE IF s[k].id \in seen
         THEN DedupFrom(s, k + 1, seen)
         ELSE <<s[k]>> \o DedupFrom(s, k + 1, seen \cup {s[k].id})

\* variant: no filter at all
DedupNone(s) == s

\* variant: the last occurrence of an identifier is the one kept
RECURSIVE DedupLastFrom(_, _)
DedupLastFrom(s, k) ==
    IF k > Len(s) THEN <<>>
    ELSE (IF \E j \in (k + 1)..Len(s) : s[j].id = s[k].id THEN <<>> ELSE <<s[k]>>)
         \o DedupLastFrom(s, k + 1)

DedupLast(s) == DedupLastFrom(s, 1)

\* variant: seen holds (id, category) pairs
RECURSIVE DedupPairsFrom(_, _, _)
DedupPairsFrom(s, k, seen) ==
    IF k > Len(s) THEN <<>>
    ELSE IF <<s[k].id, s[k].category>> \in seen
         THEN DedupPairsFrom(s, k + 1, seen)
         ELSE <<s[k]>> \o DedupPairsFrom(s, k + 1, seen \cup {<<s[k].id, s[k].category>>})

DedupPerCategory(s) == DedupPairsFrom(s, 1, {})

\* const seen = new Set(); .filter(p => { if (seen.has(p.id)) return false; ... })
Dedup(s) == DedupFrom(s, 1, {})

\* variant: the comparator (a, b) => a.pctOff - b.pctOff
CompareAscending(a, b) == a.pctOff - b.pctOff

\* the comparator (a, b) => b.pctOff - a.pctOff
Compare(a, b) == b.pctOff - a.pctOff

\* variant: an element is placed before the elements it ties with
RECURSIVE InsertBeforeTies(_, _, _)
InsertBeforeTies(x, s, k) ==
    IF k > Len(s) THEN Append(s, x)
    ELSE IF Compare(s[k], x) >= 0
         THEN SubSeq(s, 1, k - 1) \o <<x>> \o SubSeq(s, k, Len(s))
         ELSE InsertBeforeTies(x, s, k + 1)

RECURSIVE InsertAt(_, _, _)
InsertAt(x, s, k) ==
    IF k > Len(s) THEN Append(s, x)
    ELSE IF Compare(s[k], x) > 0
         THEN SubSeq(s, 1, k - 1) \o <<x>> \o SubSeq(s, k, Len(s))
         ELSE InsertAt(x, s, k + 1)

RECURSIVE SortFrom(_, _, _)
SortFrom(s, k, acc) ==
    IF k > Len(s) THEN acc ELSE SortFrom(s, k + 1, InsertAt(s[k], acc, 1))

\* Array.prototype.sort with the comparator: a stable sort
SortDeals(s) == SortFrom(s, 1, <<>>)

Min(a, b) == IF a < b THEN a ELSE b

\* .slice(0, cap)
Slice(s, cap) == SubSeq(s, 1, Min(cap, Len(s)))

\* variant: the slice is taken first
AggregateSliceFirst(allProducts, cap) == SortDeals(Dedup(Slice(allProducts, cap)))

\* allProducts.filter(dedup).sort(by pctOff desc).slice(0, 200)
Aggregate(allProducts, cap) == Slice(SortDeals(Dedup(allProducts)), cap)

----------------------------------------------------------------------------
(* GET /api/deals, batched variant *)

NumCats == Len(DEAL_CATEGORIES)

Range(s) == { s[k] : k \in 1..Len(s) }

\* variant: DEAL_CATEGORIES.slice(i, i + batchSize + 1)
BatchOfOverlong(i) == SubSeq(DEAL_CATEGORIES, i + 1, Min(i + batchSize + 1, NumCats))

\* DEAL_CATEGORIES.slice(i, i + batchSize), i counted from 0
BatchOf(i) == SubSeq(DEAL_CATEGORIES, i + 1, Min(i + batchSize, NumCats))

NoResp == [kind |-> "none", body |-> <<>>]

\* getAppToken has returned a token to some request before (no time passes
\* between the requests of one run, so that token is within its expires_in)
AppTokenHeld ==
    \/ \E q \in DOMAIN deals :
          deals[q].pc = "batch" \/ (deals[q].pc = "done" /\ deals[q].status = 200)
    \/ \E q \in DOMAIN stores : stores[q].upstreamCalls > 0

NewRequest ==
    [ pc          |-> "start",
      locationId  |-> "unread",
      held        |-> FALSE,
      i           |-> 0,
      st          |-> [c \in Range(DEAL_CATEGORIES) |-> "idle"],
      allProducts |-> <<>>,
      status      |-> 0,
      error       |-> "",
      deals       |-> <<>>,
      tokenCalls  |-> 0,
      issued      |-> [c \in Range(DEAL_CATEGORIES) |-> 0],
      batches     |-> <<>>,
      resp        |-> [c \in Range(DEAL_CATEGORIES) |-> NoResp] ]

\* res.json({ deals: unique })
Respond(s) ==
    [s EXCEPT !.pc = "done", !.status = 200,
              !.deals = Aggregate(s.allProducts, DealCap)]

\* batch.map(async (category) => { ... await fetch(...) ... }): every callback
\* of the batch runs to its fetch before Promise.all is awaited
IssueBatch(s, i) ==
    [s EXCEPT !.pc = "batch", !.i = i,
              !.st = [c \in DOMAIN s.st |->
                        IF c \in Range(BatchOf(i)) THEN "fetch" ELSE s.st[c]],
              !.issued = [c \in DOMAIN s.issued |->
                        IF c \in Range(BatchOf(i)) THEN s.issued[c] + 1 ELSE s.issued[c]],
              !.batches = Append(s.batches, BatchOf(i))]

\* the for header: i < DEAL_CATEGORIES.length ? loop body : code after the loop
LoopFrom(s, i) == IF i < NumCats THEN IssueBatch(s, i) ELSE Respond(s)

\* variant: Promise.any, fulfilled when one callback has returned
BatchSettledAny(s) == \E c \in Range(BatchOf(s.i)) : s.st[c] = "done"

\* Promise.all over callbacks that never reject: fulfilled when all have returned
BatchSettled(s) == \A c \in Range(BatchOf(s.i)) : s.st[c] = "done"

\* variant: the parameter is tested after the token was asked for
DealsMissingParamLate(r) ==
    /\ deals[r].pc = "start"
    /\ deals' = [deals EXCEPT ![r].pc = "done", ![r].status = 400,
                              ![r].locationId = "absent",
                              ![r].tokenCalls = deals[r].tokenCalls + 1]
    /\ UNCHANGED <<DEAL_CATEGORIES, batchSize, upstream, appVars, credVars>>

\* if (!locationId) return res.status(400)
DealsMissingParam(r) ==
    /\ deals[r].pc = "start"
    /\ deals' = [deals EXCEPT ![r].pc = "done", ![r].status = 400,
                              ![r].locationId = "absent"]
    /\ UNCHANGED <<DEAL_CATEGORIES, batchSize, upstream, appVars, credVars>>

\* const token = await getAppToken(): the client-credentials request is sent
DealsStart(r) ==
    /\ deals[r].pc = "start"
    /\ deals' = [deals EXCEPT ![r].pc = "token",
                              ![r].locationId = "present",
                              ![r].held = AppTokenHeld,
                              ![r].tokenCalls = deals[r].tokenCalls + 1]
    /\ UNCHANGED <<DEAL_CATEGORIES, batchSize, upstream, appVars, credVars>>

\* err.message of what getAppToken throws: the text of a token response with a
\* non-success status (new Error(await res.text())), or the message of the
\* error fetch / res.json() rejected with
TokenErrors == {"response text", "rejection message"}

\* variant: the first batch is sent without waiting for the token
TokenFailAfterBatch(r, message) ==
    /\ deals[r].pc = "token"
    /\ deals' = [deals EXCEPT ![r] = [IssueBatch(deals[r], 0) EXCEPT
                                        !.pc = "done", !.status = 500,
                                        !.error = message]]
    /\ UNCHANGED <<DEAL_CATEGORIES, batchSize, upstream, appVars, credVars>>

\* getAppToken throws: catch -> res.status(500).json({ error: err.message })
TokenFail(r, message) ==
    /\ deals[r].pc = "token"
    /\ deals' = [deals EXCEPT ![r].pc = "done", ![r].status = 500,
                              ![r].error = message]
    /\ UNCHANGED <<DEAL_CATEGORIES, batchSize, upstream, appVars, credVars>>

\* getAppToken returns: allProducts = [], the loop starts at i = 0
TokenOk(r) ==
    /\ deals[r].pc = "token"
    /\ deals' = [deals EXCEPT ![r] = LoopFrom(deals[r], 0)]
    /\ UNCHANGED <<DEAL_CATEGORIES, batchSize, upstream, appVars, credVars>>

\* variant: the failure is rethrown and reaches the handler's catch
SettleAbort(s, c, kind) ==
    [s EXCEPT !.pc = "done", !.status = 500, !.st[c] = "done",
              !.resp[c] = [kind |-> kind, body |-> <<>>]]

\* variant: a failed category request is sent again
SettleRetry(s, c, kind) ==
    [s EXCEPT !.st[c] = "fetch", !.issued[c] = s.issued[c] + 1]

\* the callback returns without pushing: if (!r.ok) return, or catch (e) {}
Settle(s, c, kind) ==
    [s EXCEPT !.st[c] = "done", !.resp[c] = [kind |-> kind, body |-> <<>>]]

\* if (!r.ok) return
FetchNotOk(r, c) ==
    /\ deals[r].pc = "batch" /\ deals[r].st[c] = "fetch"
    /\ deals' = [deals EXCEPT ![r] = Settle(deals[r], c, "status")]
    /\ UNCHANGED <<DEAL_CATEGORIES, batchSize, upstream, appVars, credVars>>

\* fetch rejects: catch (e) {}
FetchError(r, c) ==
    /\ deals[r].pc = "batch" /\ deals[r].st[c] = "fetch"
    /\ deals' = [deals EXCEPT ![r] = Settle(deals[r], c, "error")]
    /\ UNCHANGED <<DEAL_CATEGORIES, batchSize, upstream, appVars, credVars>>

\* r.ok: const data = await r.json()
FetchOk(r, c) ==
    /\ deals[r].pc = "batch" /\ deals[r].st[c] = "fetch"
    /\ deals' = [deals EXCEPT ![r].st[c] = "json"]
    /\ UNCHANGED <<DEAL_CATEGORIES, batchSize, upstream, appVars, credVars>>

\* r.json() rejects, or the .map callback throws on a record whose prices are
\* not numbers (toFixed): catch (e) {}
JsonError(r, c) ==
    /\ deals[r].pc = "batch" /\ deals[r].st[c] = "json"
    /\ deals' = [deals EXCEPT ![r] = Settle(deals[r], c, "body")]
    /\ UNCHANGED <<DEAL_CATEGORIES, batchSize, upstream, appVars, credVars>>

\* allProducts.push(...products)
Push(s, c, body) ==
    [s EXCEPT !.st[c] = "done",
              !.allProducts = s.allProducts \o Products(body, c),
              !.resp[c] = [kind |-> "ok", body |-> body]]

\* variant: allProducts is one array of the module, shared by the requests
JsonOkShared(r, c) ==
    /\ deals[r].pc = "batch" /\ deals[r].st[c] = "json"
    /\ \E body \in upstream :
         deals' = [q \in DOMAIN deals |->
                     IF q = r THEN Push(deals[r], c, body)
                     ELSE [deals[q] EXCEPT
                             !.allProducts = @ \o Products(body, c)]]
    /\ UNCHANGED <<DEAL_CATEGORIES, batchSize, upstream, appVars, credVars>>

\* r.json() resolves with the body: filter, map, push
JsonOk(r, c) ==
    /\ deals[r].pc = "batch" /\ deals[r].st[c] = "json"
    /\ \E body \in upstream :
         deals' = [deals EXCEPT ![r] = Push(deals[r], c, body)]
    /\ UNCHANGED <<DEAL_CATEGORIES, batchSize, upstream, appVars, credVars>>

\* variant: the loop goes on only when no callback of the batch has failed
ResumeIfAllOk(r) ==
    /\ deals[r].pc = "batch"
    /\ BatchSettled(deals[r])
    /\ \A c \in Range(BatchOf(deals[r].i)) : deals[r].resp[c].kind = "ok"
    /\ deals' = [deals EXCEPT ![r] = LoopFrom(deals[r], deals[r].i + batchSize)]
    /\ UNCHANGED <<DEAL_CATEGORIES, batchSize, upstream, appVars, credVars>>

\* await Promise.all(...) resumes: i += batchSize, next batch or the response
Resume(r) ==
    /\ deals[r].pc = "batch"
    /\ BatchSettled(deals[r])
    /\ deals' = [deals EXCEPT ![r] = LoopFrom(deals[r], deals[r].i + batchSize)]
    /\ UNCHANGED <<DEAL_CATEGORIES, batchSize, upstream, appVars, credVars>>

DealsNext ==
    \/ \E r \in DOMAIN deals : DealsMissingParam(r)
    \/ \E r \in DOMAIN deals : DealsStart(r)
    \/ \E r \in DOMAIN deals, message \in TokenErrors : TokenFail(r, message)
    \/ \E r \in DOMAIN deals : TokenOk(r)
    \/ \E r \in DOMAIN deals : Resume(r)
    \/ \E r \in DOMAIN deals, c \in Range(DEAL_CATEGORIES) : FetchNotOk(r, c)
    \/ \E r \in DOMAIN deals, c \in Range(DEAL_CATEGORIES) : FetchError(r, c)
    \/ \E r \in DOMAIN deals, c \in Range(DEAL_CATEGORIES) : FetchOk(r, c)
    \/ \E r \in DOMAIN deals, c \in Range(DEAL_CATEGORIES) : JsonError(r, c)
    \/ \E r \in DOMAIN deals, c \in Range(DEAL_CATEGORIES) : JsonOk(r, c)

----------------------------------------------------------------------------
(* GET /api/stores *)

NewStores ==
    [ pc            |-> "start",
      zip           |-> "unread",
      held          |-> FALSE,
      status        |-> 0,
      tokenCalls    |-> 0,
      upstreamCalls |-> 0 ]

\* if (!zip) return res.status(400)
StoresMissingParam(r) ==
    /\ stores[r].pc = "start"
    /\ stores' = [stores EXCEPT ![r].pc = "done", ![r].status = 400,
                                ![r].zip = "absent"]
    /\ UNCHANGED <<dealVars, searches, db, credVars>>

\* const token = await getAppToken(): the client-credentials request is sent
StoresStart(r) ==
    /\ stores[r].pc = "start"
    /\ stores' = [stores EXCEPT ![r].pc = "token",
                                ![r].zip = "present",
                                ![r].held = AppTokenHeld,
                                ![r].tokenCalls = stores[r].tokenCalls + 1]
    /\ UNCHANGED <<dealVars, searches, db, credVars>>

\* getAppToken throws: catch -> 500
StoresTokenFail(r) ==
    /\ stores[r].pc = "token"
    /\ stores' = [stores EXCEPT ![r].pc = "done", ![r].status = 500]
    /\ UNCHANGED <<dealVars, searches, db, credVars>>

\* getAppToken returns: the locations request is sent
StoresTokenOk(r) ==
    /\ stores[r].pc = "token"
    /\ stores' = [stores EXCEPT ![r].pc = "fetch",
                                ![r].upstreamCalls = stores[r].upstreamCalls + 1]
    /\ UNCHANGED <<dealVars, searches, db, credVars>>

\* the fetch rejects, or !r.ok (throw new Error(await r.text())): catch -> 500
StoresFetchFail(r) ==
    /\ stores[r].pc = "fetch"
    /\ stores' = [stores EXCEPT ![r].pc = "done", ![r].status = 500]
    /\ UNCHANGED <<dealVars, searches, db, credVars>>

\* r.ok: const data = await r.json()
StoresFetchOk(r) ==
    /\ stores[r].pc = "fetch"
    /\ stores' = [stores EXCEPT ![r].pc = "json"]
    /\ UNCHANGED <<dealVars, searches, db, credVars>>

\* r.json() rejects: catch -> 500
StoresJsonError(r) ==
    /\ stores[r].pc = "json"
    /\ stores' = [stores EXCEPT ![r].pc = "done", ![r].status = 500]
    /\ UNCHANGED <<dealVars, searches, db, credVars>>

\* r.json() resolves: res.json({ stores })
StoresJsonOk(r) ==
    /\ stores[r].pc = "json"
    /\ stores' = [stores EXCEPT ![r].pc = "done", ![r].status = 200]
    /\ UNCHANGED <<dealVars, searches, db, credVars>>

StoresNext ==
    \/ \E r \in DOMAIN stores : StoresMissingParam(r)
    \/ \E r \in DOMAIN stores : StoresStart(r)
    \/ \E r \in DOMAIN stores : StoresTokenFail(r)
    \/ \E r \in DOMAIN stores : StoresTokenOk(r)
    \/ \E r \in DOMAIN stores : StoresFetchFail(r)
    \/ \E r \in DOMAIN stores : StoresFetchOk(r)
    \/ \E r \in DOMAIN stores : StoresJsonError(r)
    \/ \E r \in DOMAIN stores : StoresJsonOk(r)

----------------------------------------------------------------------------
(* POST /api/recipes/search: the parameter check and the upstream search *)

NewSearch ==
    [ pc            |-> "start",
      ingredients   |-> "unread",
      status        |-> 0,
      upstreamCalls |-> 0 ]

\* req.body.ingredients as !ingredients?.length sees it: a missing field and
\* an empty list have no length
Missing == {"absent", "empty"}

\* if (!ingredients?.length) return res.status(400)
SearchMissingParam(r, ingredients) ==
    /\ searches[r].pc = "start"
    /\ ingredients \in Missing
    /\ searches' = [searches EXCEPT ![r].pc = "done", ![r].status = 400,
                                    ![r].ingredients = ingredients]
    /\ UNCHANGED <<dealVars, stores, db, credVars>>

\* ingredients has a length but is no array (a string): ingredients.slice(0, 20)
\* .map throws a TypeError inside the try: catch -> 500
SearchNotAList(r) ==
    /\ searches[r].pc = "start"
    /\ searches' = [searches EXCEPT ![r].pc = "done", ![r].status = 500,
                                    ![r].ingredients = "text"]
    /\ UNCHANGED <<dealVars, stores, db, credVars>>

\* a non-empty list: the query is built and the complexSearch request is sent
SearchStart(r) ==
    /\ searches[r].pc = "start"
    /\ searches' = [searches EXCEPT ![r].pc = "fetch",
                                    ![r].ingredients = "list",
                                    ![r].upstreamCalls = searches[r].upstreamCalls + 1]
    /\ UNCHANGED <<dealVars, stores, db, credVars>>

\* the fetch rejects, or !searchRes.ok: catch -> 500
SearchFetchFail(r) ==
    /\ searches[r].pc = "fetch"
    /\ searches' = [searches EXCEPT ![r].pc = "done", ![r].status = 500]
    /\ UNCHANGED <<dealVars, stores, db, credVars>>

\* searchRes.ok: const searchData = await searchRes.json()
SearchFetchOk(r) ==
    /\ searches[r].pc = "fetch"
    /\ searches' = [searches EXCEPT ![r].pc = "json"]
    /\ UNCHANGED <<dealVars, stores, db, credVars>>

\* searchRes.json() rejects, or the enrichment throws: catch -> 500
SearchJsonError(r) ==
    /\ searches[r].pc = "json"
    /\ searches' = [searches EXCEPT ![r].pc = "done", ![r].status = 500]
    /\ UNCHANGED <<dealVars, stores, db, credVars>>

\* searchRes.json() resolves: enrich, sort, res.json({ recipes: enriched })
SearchJsonOk(r) ==
    /\ searches[r].pc = "json"
    /\ searches' = [searches EXCEPT ![r].pc = "done", ![r].status = 200]
    /\ UNCHANGED <<dealVars, stores, db, credVars>>

SearchNext ==
    \/ \E r \in DOMAIN searches, x \in Missing : SearchMissingParam(r, x)
    \/ \E r \in DOMAIN searches : SearchNotAList(r)
    \/ \E r \in DOMAIN searches : SearchStart(r)
    \/ \E r \in DOMAIN searches : SearchFetchFail(r)
    \/ \E r \in DOMAIN searches : SearchFetchOk(r)
    \/ \E r \in DOMAIN searches : SearchJsonError(r)
    \/ \E r \in DOMAIN searches : SearchJsonOk(r)

----------------------------------------------------------------------------
(* POST /api/recipes/search: the enrichment of one recipe *)

\* A name is a sequence of characters; "constructor" stands for that word.
\* String.prototype.toLowerCase, character by character
LowerChar(c) == CASE c = "A" -> "a" [] c = "B" -> "b" [] OTHER -> c

ToLowerCase(name) == [k \in DOMAIN name |-> LowerChar(name[k])]

\* name.split(" ")[0]: the characters before the first space
FirstToken(name) ==
    LET spaces == { k \in DOMAIN name : name[k] = " " }
    IN  IF spaces = {} THEN name
        ELSE SubSeq(name, 1, (CHOOSE k \in spaces : \A j \in spaces : k <= j) - 1)

\* the key of a name: name.toLowerCase().split(" ")[0]
KeyOf(name) == FirstToken(ToLowerCase(name))

\* String.prototype.includes
Includes(text, part) ==
    \E at \in 0..(Len(text) - Len(part)) :
        \A k \in 1..Len(part) : text[at + k] = part[k]

\* the value of a missing property
Undefined == [kind |-> "undefined", name |-> <<>>, savings |-> 0, salePrice |-> 0,
              regularPrice |-> 0, upc |-> 0]

\* Object.prototype.constructor, which every object literal inherits: the
\* function Object, whose name is "Object" and which has no price fields
ObjectFunction == [kind |-> "function", name |-> <<"Object">>, savings |-> 0,
                   salePrice |-> 0, regularPrice |-> 0, upc |-> 0]

\* the lowercase keys that {} answers without having them as own property
InheritedKeys == { <<"constructor">> }

\* ingredientLookup[key] after the loop ingredientLookup[KeyOf(ing.name)] = ing:
\* the last submitted item with that key, else the inherited property
IngredientLookup(ingredients, key) ==
    LET own == { k \in DOMAIN ingredients : KeyOf(ingredients[k].name) = key }
    IN  IF own # {}
        THEN ingredients[CHOOSE k \in own : \A j \in own : j <= k]
        ELSE IF key \in InheritedKeys THEN ObjectFunction ELSE Undefined

\* ingredients.find(i => i.name.toLowerCase().includes(key))
FindIncluding(ingredients, key) ==
    LET hits == { k \in DOMAIN ingredients :
                    Includes(ToLowerCase(ingredients[k].name), key) }
    IN  IF hits = {} THEN Undefined
        ELSE ingredients[CHOOSE k \in hits : \A j \in hits : k <= j]

\* const deal = ingredientLookup[key] || ingredients.find(...)
DealFor(ingredients, name) ==
    LET key == KeyOf(name)
        found == IngredientLookup(ingredients, key)
    IN  IF found.kind # "undefined" THEN found ELSE FindIncluding(ingredients, key)

\* the object pushed to usedSaleItems
SaleItemOf(deal) ==
    [name |-> deal.name, salePrice |-> deal.salePrice,
     regularPrice |-> deal.regularPrice, savings |-> deal.savings, upc |-> deal.upc]

\* for (const ing of recipe.usedIngredients) { ... }: the state of the loop
\* after the first k ingredients
RECURSIVE MatchLoop(_, _, _)
MatchLoop(ingredients, used, k) ==
    IF k = 0
    THEN [attributed |-> <<>>, usedSaleItems |-> <<>>, totalSavings |-> 0,
          estimatedCost |-> 0]
    ELSE LET before == MatchLoop(ingredients, used, k - 1)
             deal == DealFor(ingredients, used[k])
         IN  IF deal.kind = "undefined"
             THEN [before EXCEPT !.attributed = Append(@, deal)]
             ELSE [attributed    |-> Append(before.attributed, deal),
                   usedSaleItems |-> Append(before.usedSaleItems, SaleItemOf(deal)),
                   totalSavings  |-> before.totalSavings + deal.savings,
                   estimatedCost |-> before.estimatedCost + deal.salePrice]

\* estimatedCost += (recipe.missedIngredientCount || 0) * 0.5
PantryCost == 50

\* the savings part of recipes.map(recipe => ...): amounts are cents, the
\* field savings holds parseFloat(deal.savings) || 0
Enrich(ingredients, recipe) ==
    LET loop == MatchLoop(ingredients, recipe.usedIngredients,
                          Len(recipe.usedIngredients))
    IN  [loop EXCEPT !.estimatedCost = @ + recipe.missedIngredientCount * PantryCost]

\* the handler's enrichment step on one recipe of the search result
EnrichStep ==
    /\ searches.pc = "ready"
    /\ searches' = [searches EXCEPT !.pc = "done",
                                    !.enriched = Enrich(searches.ingredients,
                                                        searches.recipe)]
    /\ UNCHANGED <<dealVars, stores, db, credVars>>

----------------------------------------------------------------------------
(* The rows of the relational store and the handlers of /api/profile and
   /api/recipes/saved that read and change them *)

Owners == {"u1", "u2"}

\* the endpoints that go through the relational store only
StoreKinds == {"profile", "profilePatch", "saved", "save", "unsave"}

RowIds == 1..MaxRows

IdleRow ==
    [ kind    |-> "none",
      pc      |-> "idle",
      user    |-> "",
      id      |-> 0,          \* req.params.id
      status  |-> 0,
      touched |-> {} ]        \* history: owners of the rows the operation read or changed

\* variant: .eq("id", id) alone
SavedWhereId(saved_recipes, id, user_id) ==
    { row \in saved_recipes : row.id = id }

\* .eq("id", id).eq("user_id", user_id) on saved_recipes
SavedWhere(saved_recipes, id, user_id) ==
    { row \in saved_recipes : row.id = id /\ row.user_id = user_id }

\* .eq("user_id", user_id) on saved_recipes
SavedOf(saved_recipes, user_id) ==
    { row \in saved_recipes : row.user_id = user_id }

\* the primary key the store gives to an inserted row
NextId(saved_recipes) ==
    CHOOSE n \in RowIds :
        /\ \A row \in saved_recipes : row.id # n
        /\ \A m \in RowIds : (\A row \in saved_recipes : row.id # m) => n <= m

OwnersOf(rows) == { row.user_id : row \in rows }

\* a handler of /api/profile or /api/recipes/saved is entered: await getUser(req)
RowsBegin(r, kind, id) ==
    /\ db.reqs[r].pc = "idle"
    /\ db' = [db EXCEPT !.reqs[r] = [IdleRow EXCEPT !.kind = kind, !.pc = "getUser",
                                                     !.id = id]]
    /\ UNCHANGED <<dealVars, stores, searches, credVars>>

\* getUser returns null: 401
RowsNoUser(r) ==
    /\ db.reqs[r].pc = "getUser"
    /\ db' = [db EXCEPT !.reqs[r].pc = "done", !.reqs[r].status = 401]
    /\ UNCHANGED <<dealVars, stores, searches, credVars>>

\* getUser returns user u: the handler's supabase operation is sent
RowsUser(r, u) ==
    /\ db.reqs[r].pc = "getUser"
    /\ db' = [db EXCEPT !.reqs[r].pc = "store", !.reqs[r].user = u]
    /\ UNCHANGED <<dealVars, stores, searches, credVars>>

\* the store cannot execute the operation: if (error) return res.status(500)
RowsError(r) ==
    /\ db.reqs[r].pc = "store"
    /\ db' = [db EXCEPT !.reqs[r].pc = "done", !.reqs[r].status = 500]
    /\ UNCHANGED <<dealVars, stores, searches, credVars>>

\* from("profiles").select("*").eq("id", user.id).single()
ProfileSelect(r) ==
    /\ db.reqs[r].pc = "store" /\ db.reqs[r].kind = "profile"
    /\ db' = [db EXCEPT !.reqs[r].pc = "done", !.reqs[r].status = 200,
                        !.reqs[r].touched = {db.reqs[r].user}]
    /\ UNCHANGED <<dealVars, stores, searches, credVars>>

\* from("profiles").update(updates).eq("id", user.id).select().single()
ProfileUpdate(r) ==
    LET u == db.reqs[r].user
        after == [db.profiles EXCEPT ![u] = @ + 1]
    IN  /\ db.reqs[r].pc = "store" /\ db.reqs[r].kind = "profilePatch"
        /\ db.profiles[u] < MaxEdits
        /\ db' = [db EXCEPT !.profiles = after,
                            !.reqs[r].pc = "done", !.reqs[r].status = 200,
                            !.reqs[r].touched =
                                { o \in Owners : after[o] # db.profiles[o] }]
        /\ UNCHANGED <<dealVars, stores, searches, credVars>>

\* from("saved_recipes").select("*").eq("user_id", user.id).order(...)
SavedSelect(r) ==
    /\ db.reqs[r].pc = "store" /\ db.reqs[r].kind = "saved"
    /\ db' = [db EXCEPT !.reqs[r].pc = "done", !.reqs[r].status = 200,
                        !.reqs[r].touched =
                            OwnersOf(SavedOf(db.saved_recipes, db.reqs[r].user))]
    /\ UNCHANGED <<dealVars, stores, searches, credVars>>

\* from("saved_recipes").insert({ user_id: user.id, ... }).select().single()
SavedInsert(r) ==
    LET after == db.saved_recipes \cup
                   { [id |-> NextId(db.saved_recipes), user_id |-> db.reqs[r].user] }
    IN  /\ db.reqs[r].pc = "store" /\ db.reqs[r].kind = "save"
        /\ Cardinality(db.saved_recipes) < MaxRows
        /\ db' = [db EXCEPT !.saved_recipes = after,
                            !.reqs[r].pc = "done", !.reqs[r].status = 200,
                            !.reqs[r].touched = OwnersOf(after \ db.saved_recipes)]
        /\ UNCHANGED <<dealVars, stores, searches, credVars>>

\* from("saved_recipes").delete().eq("id", req.params.id).eq("user_id", user.id)
SavedDelete(r) ==
    LET after == db.saved_recipes \
                   SavedWhere(db.saved_recipes, db.reqs[r].id, db.reqs[r].user)
    IN  /\ db.reqs[r].pc = "store" /\ db.reqs[r].kind = "unsave"
        /\ db' = [db EXCEPT !.saved_recipes = after,
                            !.reqs[r].pc = "done", !.reqs[r].status = 200,
                            !.reqs[r].touched = OwnersOf(db.saved_recipes \ after)]
        /\ UNCHANGED <<dealVars, stores, searches, credVars>>

\* the handler has returned
RowsRecycle(r) ==
    /\ db.reqs[r].pc = "done"
    /\ db' = [db EXCEPT !.reqs[r] = IdleRow]
    /\ UNCHANGED <<dealVars, stores, searches, credVars>>

RowsNext ==
    \/ \E r \in DOMAIN db.reqs, kind \in StoreKinds \ {"unsave"} : RowsBegin(r, kind, 0)
    \/ \E r \in DOMAIN db.reqs, id \in RowIds : RowsBegin(r, "unsave", id)
    \/ \E r \in DOMAIN db.reqs : RowsNoUser(r)
    \/ \E r \in DOMAIN db.reqs, u \in Owners : RowsUser(r, u)
    \/ \E r \in DOMAIN db.reqs : RowsError(r)
    \/ \E r \in DOMAIN db.reqs : ProfileSelect(r)
    \/ \E r \in DOMAIN db.reqs : ProfileUpdate(r)
    \/ \E r \in DOMAIN db.reqs : SavedSelect(r)
    \/ \E r \in DOMAIN db.reqs : SavedInsert(r)
    \/ \E r \in DOMAIN db.reqs : SavedDelete(r)
    \/ \E r \in DOMAIN db.reqs : RowsRecycle(r)

----------------------------------------------------------------------------
(* The credential map and the handlers that use it *)

Users == {"u1"}
Anonymous == "anonymous"            \* const state = userId || "anonymous"
Keys == Users \cup {Anonymous}
NoRef == 0                          \* krogerTokens.get(key) === undefined
Slots == DOMAIN reqs
Refs == 1..MaxObjs

NoObj == [accessToken |-> 0, refreshToken |-> 0, expiresAt |-> 0, profile |-> 0]

NoGrant == [access_token |-> 0, expires_in |-> 0, storedAt |-> -1]

IdleReq ==
    [ kind          |-> "none",
      pc            |-> "idle",
      user          |-> "",
      krogerData    |-> NoRef,
      expires_in    |-> 0,
      refreshCalls  |-> 0,
      upstreamCalls |-> 0,
      sawExpired    |-> FALSE,
      storeOps      |-> 0,
      mapOps        |-> 0,
      failed        |-> FALSE,
      escaped       |-> FALSE,
      status        |-> 0,
      location      |-> "" ]

Free(r) == reqs[r].pc = "idle"

\* no response is waiting to be taken off its slot
Quiet == \A r \in Slots : reqs[r].pc # "done"

\* a new request takes the lowest free slot
Fresh(r) == Quiet /\ Free(r) /\ \A q \in Slots : q < r => ~Free(q)

\* handler r is suspended at the await named pc, and that await settles now
At(r, pc) == Quiet /\ reqs[r].pc = pc

\* objects still referenced by the map or by a handler's local
Live(map, rq) ==
    ({ map[k] : k \in Keys } \cup { rq[r].krogerData : r \in Slots }) \ {NoRef}

Lowest(S) == CHOOSE x \in S : \A y \in S : x <= y

\* a name for the next object
FreeRefs == Refs \ Live(krogerTokens, reqs)

KeyOrder == CHOOSE s \in [1..Cardinality(Keys) -> Keys] : \A k \in Keys : \E n \in DOMAIN s : s[n] = k

\* where object o is first met when walking the map and then the handlers
FirstUse(o, map, rq) ==
    Lowest({ n \in DOMAIN KeyOrder : map[KeyOrder[n]] = o }
           \cup { Cardinality(Keys) + r : r \in { q \in Slots : rq[q].krogerData = o } })

\* object identity is only observable as aliasing: objects are named in the
\* order of their first use
Name(o, map, rq) ==
    IF o = NoRef THEN NoRef
    ELSE Cardinality({ p \in Live(map, rq) : FirstUse(p, map, rq) <= FirstUse(o, map, rq) })

Named(n, map, rq) == CHOOSE o \in Live(map, rq) : Name(o, map, rq) = n

Commit(rq, map, h, gr) ==
    LET count == Cardinality(Live(map, rq))
    IN  /\ reqs' = [r \in Slots |->
                      [rq[r] EXCEPT !.krogerData = Name(rq[r].krogerData, map, rq)]]
        /\ krogerTokens' = [k \in Keys |-> Name(map[k], map, rq)]
        /\ heap' = [n \in Refs |-> IF n <= count THEN h[Named(n, map, rq)] ELSE NoObj]
        /\ grants' = [n \in Refs |-> IF n <= count THEN gr[Named(n, map, rq)] ELSE NoGrant]

\* a token response: access tokens are numbered within one code exchange
Grant(access_token, expires_in, t) ==
    [access_token |-> access_token, expires_in |-> expires_in, storedAt |-> t]

\* variant: Date.now() > krogerData.expiresAt
ExpiredStrictly(cred, t) == t > cred.expiresAt

\* Date.now() >= krogerData.expiresAt
Expired(cred, t) == t >= cred.expiresAt

\* variant: only the access token is replaced
ApplyRefreshTokenOnly(cred, access_token, expires_in, t) ==
    [cred EXCEPT !.accessToken = access_token]

\* krogerData.accessToken = refreshed.access_token;
\* krogerData.expiresAt = Date.now() + refreshed.expires_in * 1000
ApplyRefresh(cred, access_token, expires_in, t) ==
    [cred EXCEPT !.accessToken = access_token,
                 !.expiresAt = t + expires_in * MsPerSecond]

\* the object literal of krogerTokens.set(userId, { ... }) in the callback
NewCredential(access_token, refresh_token, expires_in, profile, t) ==
    [ accessToken  |-> access_token,
      refreshToken |-> refresh_token,
      expiresAt    |-> t + expires_in * MsPerSecond,
      profile      |-> profile ]

\* an awaited collaborator of the handler has failed
Failing(s) == [s EXCEPT !.failed = TRUE]

\* krogerTokens.get / .set / .delete on behalf of the request
MapOp(s) == [s EXCEPT !.mapOps = s.mapOps + 1]

\* a supabase.from(...) operation is sent on behalf of the request
StoreOp(s) == [s EXCEPT !.storeOps = s.storeOps + 1]

\* res.status(code).json(...)
Reply(s, code) == [s EXCEPT !.pc = "done", !.status = code]

\* res.redirect(`${APP_URL}/profile.html?kroger=...`)
Redirect(s, where) == [s EXCEPT !.pc = "done", !.status = 302, !.location = where]

\* handler r sends its response
Return(r, response) ==
    Commit([reqs EXCEPT ![r] = response], krogerTokens, heap, grants)

\* the handler has returned: its locals are dropped
Recycle(r) ==
    /\ reqs[r].pc = "done"
    /\ Commit([reqs EXCEPT ![r] = IdleReq], krogerTokens, heap, grants)
    /\ UNCHANGED <<dealVars, appVars, env, kroger_connected, now, disconnected>>

\* the fetch of the loyalty / cart endpoint is sent
SendUpstream(s) ==
    [s EXCEPT !.pc = "upstream", !.upstreamCalls = s.upstreamCalls + 1]

\* app.get("/api/coupons") and app.post("/api/cart") are entered: await getUser(req)
UserRequestBegin(r, kind) ==
    /\ Fresh(r)
    /\ Commit([reqs EXCEPT ![r] = [IdleReq EXCEPT !.kind = kind, !.pc = "getUser"]],
              krogerTokens, heap, grants)
    /\ UNCHANGED <<dealVars, appVars, env, kroger_connected, now, disconnected>>

\* /api/coupons, /api/cart, /api/profile, /api/recipes/saved
UserScoped == {"coupons", "cart"} \cup StoreKinds

\* variant: the credential map is read before the identity is tested
UserRequestNoUserAfterRead(r) ==
    /\ At(r, "getUser") /\ reqs[r].kind \in UserScoped
    /\ Return(r, Reply(MapOp(reqs[r]), 401))
    /\ UNCHANGED <<dealVars, appVars, env, kroger_connected, now, disconnected>>

\* getUser returns null (no Bearer header, or the lookup gives an error or no
\* user): 401 Not authenticated
UserRequestNoUser(r) ==
    /\ At(r, "getUser") /\ reqs[r].kind \in UserScoped
    /\ Return(r, Reply(reqs[r], 401))
    /\ UNCHANGED <<dealVars, appVars, env, kroger_connected, now, disconnected>>

\* the expiry check: start the refresh (await refreshKrogerToken) or send the
\* upstream request at once
CheckExpiry(s, cred, t) ==
    IF Expired(cred, t)
    THEN [s EXCEPT !.pc = "refresh", !.refreshCalls = s.refreshCalls + 1]
    ELSE SendUpstream(s)

\* getUser returns user u: krogerTokens.get(user.id); no entry -> 401 Kroger not
\* connected; else the expiry check
UserRequestUser(r, u) ==
    LET ref == krogerTokens[u]
    IN  /\ At(r, "getUser") /\ reqs[r].kind \in {"coupons", "cart"}
        /\ IF ref = NoRef
           THEN Return(r, Reply(MapOp([reqs[r] EXCEPT !.user = u]), 401))
           ELSE /\ Commit([reqs EXCEPT ![r] =
                             CheckExpiry([MapOp(reqs[r]) EXCEPT
                                            !.user = u, !.krogerData = ref,
                                            !.sawExpired = (heap[ref].expiresAt <= now)],
                                         heap[ref], now)],
                          krogerTokens, heap, grants)
        /\ UNCHANGED <<dealVars, appVars, env, kroger_connected, now, disconnected>>

\* variant: the catch forgets the credential that could not be refreshed
RefreshFailForget(r) ==
    /\ At(r, "refresh")
    /\ Commit([reqs EXCEPT ![r] = Reply(Failing(reqs[r]), 500)],
              [krogerTokens EXCEPT ![reqs[r].user] = NoRef], heap, grants)
    /\ UNCHANGED <<dealVars, appVars, env, kroger_connected, now, disconnected>>

\* refreshKrogerToken throws: catch -> 500
RefreshFail(r) ==
    /\ At(r, "refresh")
    /\ Return(r, Reply(Failing(reqs[r]), 500))
    /\ UNCHANGED <<dealVars, appVars, env, kroger_connected, now, disconnected>>

\* krogerTokens.set(key, object)
Set(map, key, ref) == [map EXCEPT ![key] = ref]

\* refreshKrogerToken returns: mutate the object, krogerTokens.set(user.id,
\* krogerData), send the upstream request
RefreshOk(r, expires_in) ==
    LET ref == reqs[r].krogerData
        tok == heap[ref].accessToken + 1
        obj == ApplyRefresh(heap[ref], tok, expires_in, now)
    IN  /\ At(r, "refresh")
        /\ tok <= MaxTok
        /\ Commit([reqs EXCEPT ![r] = SendUpstream(MapOp(reqs[r]))],
                  Set(krogerTokens, reqs[r].user, ref),
                  [heap EXCEPT ![ref] = obj],
                  [grants EXCEPT ![ref] = Grant(tok, expires_in, now)])
        /\ UNCHANGED <<dealVars, appVars, env, kroger_connected, now, disconnected>>

\* the upstream request succeeds: res.json(...)
UpstreamOk(r) ==
    /\ At(r, "upstream")
    /\ Return(r, Reply(reqs[r], 200))
    /\ UNCHANGED <<dealVars, appVars, env, kroger_connected, now, disconnected>>

\* the upstream request fails (rejects or !ok): catch -> 500
UpstreamFail(r) ==
    /\ At(r, "upstream")
    /\ Return(r, Reply(Failing(reqs[r]), 500))
    /\ UNCHANGED <<dealVars, appVars, env, kroger_connected, now, disconnected>>

\* app.get("/auth/kroger/disconnect") is entered: await getUser(req)
DisconnectBegin(r) ==
    /\ Fresh(r)
    /\ Commit([reqs EXCEPT ![r] = [IdleReq EXCEPT !.kind = "disconnect",
                                                  !.pc = "getUser"]],
              krogerTokens, heap, grants)
    /\ UNCHANGED <<dealVars, appVars, env, kroger_connected, now, disconnected>>

\* getUser returns null: res.json({ success: true })
DisconnectNoUser(r) ==
    /\ At(r, "getUser") /\ reqs[r].kind = "disconnect"
    /\ Return(r, Reply(reqs[r], 200))
    /\ UNCHANGED <<dealVars, appVars, env, kroger_connected, now, disconnected>>

\* krogerTokens.delete(key)
Delete(map, key) == [map EXCEPT ![key] = NoRef]

\* getUser returns user u: krogerTokens.delete(user.id); await supabase update
DisconnectUser(r, u) ==
    /\ At(r, "getUser") /\ reqs[r].kind = "disconnect"
    /\ Commit([reqs EXCEPT ![r] = [StoreOp(MapOp(reqs[r])) EXCEPT
                                     !.user = u, !.pc = "supabase"]],
              Delete(krogerTokens, u), heap, grants)
    /\ disconnected' = [disconnected EXCEPT ![u] = "deleting"]
    /\ UNCHANGED <<dealVars, appVars, env, kroger_connected, now>>

\* the supabase update settles (applied or not): res.json({ success: true })
DisconnectDone(r, applied) ==
    LET u == reqs[r].user
    IN  /\ At(r, "supabase")
        /\ kroger_connected' =
             IF applied THEN [kroger_connected EXCEPT ![u] = FALSE]
             ELSE kroger_connected
        /\ disconnected' =
             IF disconnected[u] = "deleting"
             THEN [disconnected EXCEPT ![u] = "yes"] ELSE disconnected
        /\ Return(r, Reply(reqs[r], 200))
        /\ UNCHANGED <<dealVars, appVars, env, now>>

\* app.get("/auth/kroger/callback") with error or without code: redirect to error
CallbackRejected(r) ==
    /\ Fresh(r)
    /\ Return(r, Redirect([IdleReq EXCEPT !.kind = "callback"], "error"))
    /\ UNCHANGED <<dealVars, appVars, env, kroger_connected, now, disconnected>>

\* the callback with a code and state = key: the code exchange is sent
CallbackBegin(r, key) ==
    /\ Fresh(r)
    /\ Commit([reqs EXCEPT ![r] = [IdleReq EXCEPT !.kind = "callback",
                                                  !.user = key,
                                                  !.pc = "cbToken"]],
              krogerTokens, heap, grants)
    /\ UNCHANGED <<dealVars, appVars, env, kroger_connected, now, disconnected>>

\* variant: the credential is stored before the token response is tested
CallbackTokenFailStored(r) ==
    /\ At(r, "cbToken")
    /\ FreeRefs # {}
    /\ Commit([reqs EXCEPT ![r] = Redirect(Failing(MapOp(reqs[r])), "error")],
              Set(krogerTokens, reqs[r].user, Lowest(FreeRefs)),
              [heap EXCEPT ![Lowest(FreeRefs)] = NewCredential(0, 0, 0, 0, now)],
              grants)
    /\ UNCHANGED <<dealVars, appVars, env, kroger_connected, now, disconnected>>

\* the token exchange fails: catch -> redirect to error
CallbackTokenFail(r) ==
    /\ At(r, "cbToken")
    /\ Return(r, Redirect(Failing(reqs[r]), "error"))
    /\ UNCHANGED <<dealVars, appVars, env, kroger_connected, now, disconnected>>

\* const tokens = await tokenRes.json(); the profile request is sent
CallbackTokenOk(r, expires_in) ==
    /\ At(r, "cbToken")
    /\ Commit([reqs EXCEPT ![r].expires_in = expires_in, ![r].pc = "cbProfile"],
              krogerTokens, heap, grants)
    /\ UNCHANGED <<dealVars, appVars, env, kroger_connected, now, disconnected>>

\* the profile request rejects: catch -> redirect to error, nothing stored
CallbackProfileError(r) ==
    /\ At(r, "cbProfile")
    /\ Return(r, Redirect(Failing(reqs[r]), "error"))
    /\ UNCHANGED <<dealVars, appVars, env, kroger_connected, now, disconnected>>

\* the profile request settles (ok: its data, else {}): krogerTokens.set(userId,
\* new object); then the supabase update unless the key is "anonymous"
CallbackStore(r, profileOk) ==
    LET key == reqs[r].user
        ref == Lowest(FreeRefs)
        obj == NewCredential(1, 1, reqs[r].expires_in,
                             IF profileOk THEN 1 ELSE 0, now)
    IN  /\ At(r, "cbProfile")
        /\ FreeRefs # {}
        /\ Commit([reqs EXCEPT ![r] =
                     IF key # Anonymous
                     THEN [StoreOp(MapOp(reqs[r])) EXCEPT !.pc = "cbSupabase"]
                     ELSE Redirect(MapOp(reqs[r]), "success")],
                  Set(krogerTokens, key, ref),
                  [heap EXCEPT ![ref] = obj],
                  [grants EXCEPT ![ref] = Grant(1, reqs[r].expires_in, now)])
        /\ disconnected' =
             IF key \in Users THEN [disconnected EXCEPT ![key] = "no"]
             ELSE disconnected
        /\ UNCHANGED <<dealVars, appVars, env, kroger_connected, now>>

\* the supabase update settles (applied or not): redirect to success
CallbackDone(r, applied) ==
    LET key == reqs[r].user
    IN  /\ At(r, "cbSupabase")
        /\ kroger_connected' =
             IF applied THEN [kroger_connected EXCEPT ![key] = TRUE]
             ELSE kroger_connected
        /\ Return(r, Redirect(reqs[r], "success"))
        /\ UNCHANGED <<dealVars, appVars, env, now, disconnected>>

\* time passes
Tick ==
    /\ Quiet
    /\ now < MaxTicks * MsPerSecond
    /\ now' = now + MsPerSecond
    /\ UNCHANGED <<dealVars, appVars, env, krogerTokens, heap, kroger_connected, reqs,
                   grants, disconnected>>

\* app.get / app.patch("/api/profile") and app.get / app.post / app.delete
\* ("/api/recipes/saved") are entered: await getUser(req)
StoreRequestBegin(r, kind) ==
    /\ Fresh(r)
    /\ Commit([reqs EXCEPT ![r] = [IdleReq EXCEPT !.kind = kind, !.pc = "getUser"]],
              krogerTokens, heap, grants)
    /\ UNCHANGED <<dealVars, appVars, env, kroger_connected, now, disconnected>>

\* getUser returns user u: the one supabase operation of the handler is sent
StoreRequestUser(r, u) ==
    /\ At(r, "getUser") /\ reqs[r].kind \in StoreKinds
    /\ Commit([reqs EXCEPT ![r] = [StoreOp(reqs[r]) EXCEPT !.user = u, !.pc = "store"]],
              krogerTokens, heap, grants)
    /\ UNCHANGED <<dealVars, appVars, env, kroger_connected, now, disconnected>>

\* the operation resolves with an error: 500
StoreRequestError(r) ==
    /\ At(r, "store")
    /\ Return(r, Reply(Failing(reqs[r]), 500))
    /\ UNCHANGED <<dealVars, appVars, env, kroger_connected, now, disconnected>>

\* the operation resolves with data: res.json(...); GET /api/profile reads
\* krogerTokens.get(user.id) first
StoreRequestOk(r) ==
    /\ At(r, "store")
    /\ Return(r, Reply(IF reqs[r].kind = "profile" THEN MapOp(reqs[r]) ELSE reqs[r],
                       200))
    /\ UNCHANGED <<dealVars, appVars, env, kroger_connected, now, disconnected>>

\* the handler's promise rejects outside any try: no response is sent by it
Escape(s) == [Failing(s) EXCEPT !.pc = "done", !.escaped = TRUE]

\* supabase.auth.getUser(token) rejects inside getUser: the await in the
\* handler's first statement is outside its try
GetUserRejects(r) ==
    /\ At(r, "getUser")
    /\ Return(r, Escape(reqs[r]))
    /\ UNCHANGED <<dealVars, appVars, env, kroger_connected, now, disconnected>>

\* the supabase operation of a profile / saved-recipes handler rejects
StoreRequestRejects(r) ==
    /\ At(r, "store")
    /\ Return(r, Escape(reqs[r]))
    /\ UNCHANGED <<dealVars, appVars, env, kroger_connected, now, disconnected>>

\* the supabase update of the disconnect handler rejects
DisconnectRejects(r) ==
    /\ At(r, "supabase")
    /\ disconnected' =
         IF disconnected[reqs[r].user] = "deleting"
         THEN [disconnected EXCEPT ![reqs[r].user] = "yes"] ELSE disconnected
    /\ Return(r, Escape(reqs[r]))
    /\ UNCHANGED <<dealVars, appVars, env, kroger_connected, now>>

\* the supabase update of the disconnect handler resolves with an error, which
\* is not read: res.json({ success: true })
DisconnectStoreError(r) ==
    /\ At(r, "supabase")
    /\ disconnected' =
         IF disconnected[reqs[r].user] = "deleting"
         THEN [disconnected EXCEPT ![reqs[r].user] = "yes"] ELSE disconnected
    /\ Return(r, Reply(Failing(reqs[r]), 200))
    /\ UNCHANGED <<dealVars, appVars, env, kroger_connected, now>>

\* the supabase update of the callback rejects: catch -> redirect to error
CallbackStoreRejects(r) ==
    /\ At(r, "cbSupabase")
    /\ Return(r, Redirect(Failing(reqs[r]), "error"))
    /\ UNCHANGED <<dealVars, appVars, env, kroger_connected, now, disconnected>>

CredNext ==
    \/ \E r \in Slots : Recycle(r)
    \/ \E r \in Slots : UserRequestBegin(r, "coupons")
    \/ \E r \in Slots : UserRequestBegin(r, "cart")
    \/ \E r \in Slots : UserRequestNoUser(r)
    \/ \E r \in Slots, u \in Users : UserRequestUser(r, u)
    \/ \E r \in Slots : RefreshFail(r)
    \/ \E r \in Slots, e \in env.expires_in : RefreshOk(r, e)
    \/ \E r \in Slots : UpstreamOk(r)
    \/ \E r \in Slots : UpstreamFail(r)
    \/ \E r \in Slots : DisconnectBegin(r)
    \/ \E r \in Slots : DisconnectNoUser(r)
    \/ \E r \in Slots, u \in Users : DisconnectUser(r, u)
    \/ \E r \in Slots, applied \in env.applied : DisconnectDone(r, applied)
    \/ \E r \in Slots : CallbackRejected(r)
    \/ \E r \in Slots, key \in env.state : CallbackBegin(r, key)
    \/ \E r \in Slots : CallbackTokenFail(r)
    \/ \E r \in Slots, e \in env.expires_in : CallbackTokenOk(r, e)
    \/ \E r \in Slots : CallbackProfileError(r)
    \/ \E r \in Slots, ok \in env.profileOk : CallbackStore(r, ok)
    \/ \E r \in Slots, applied \in env.applied : CallbackDone(r, applied)
    \/ Tick

\* the failures of the identity provider and of the relational store, and the
\* profile and saved-recipes handlers
UserNext ==
    \/ CredNext
    \/ \E r \in Slots, kind \in StoreKinds : StoreRequestBegin(r, kind)
    \/ \E r \in Slots, u \in Users : StoreRequestUser(r, u)
    \/ \E r \in Slots : StoreRequestError(r)
    \/ \E r \in Slots : StoreRequestOk(r)
    \/ \E r \in Slots : GetUserRejects(r)
    \/ \E r \in Slots : StoreRequestRejects(r)
    \/ \E r \in Slots : DisconnectRejects(r)
    \/ \E r \in Slots : DisconnectStoreError(r)
    \/ \E r \in Slots : CallbackStoreRejects(r)

----------------------------------------------------------------------------
(* Specifications *)

NoApps ==
    /\ stores = <<>>
    /\ searches = <<>>
    /\ db = <<>>

NoDeals ==
    /\ NoApps
    /\ DEAL_CATEGORIES = <<>>
    /\ batchSize = 1
    /\ upstream = {}
    /\ deals = <<>>

\* the state after construction (const krogerTokens = new Map()), two user
\* requests in flight at a time
CredInit ==
    /\ krogerTokens = [k \in Keys |-> NoRef]
    /\ heap = [o \in Refs |-> NoObj]
    /\ kroger_connected = [u \in Users |-> FALSE]
    /\ now = 0
    /\ reqs = [r \in 1..2 |-> IdleReq]
    /\ grants = [o \in Refs |-> NoGrant]
    /\ disconnected = [u \in Users |-> "no"]

NoCred ==
    /\ env = [state |-> {}, expires_in |-> {}, profileOk |-> {}, applied |-> {}]
    /\ krogerTokens = <<>>
    /\ heap = <<>>
    /\ kroger_connected = <<>>
    /\ now = 0
    /\ reqs = <<>>
    /\ grants = <<>>
    /\ disconnected = <<>>

Categories(n) == [k \in 1..n |-> k]

\* one /api/deals request, every category list up to MaxCats and batch width up
\* to MaxBatch
Init ==
    /\ \E n \in 0..MaxCats : DEAL_CATEGORIES = Categories(n)
    /\ batchSize \in 1..MaxBatch
    /\ upstream = Bodies
    /\ deals = [r \in {1} |-> NewRequest]
    /\ NoApps
    /\ NoCred

Next == DealsNext

Spec == Init /\ [][Next]_vars

\* the program's own list length and batch width; the catalog answers every
\* request with an empty data array
InitFull ==
    /\ DEAL_CATEGORIES = Categories(CodeNumCategories)
    /\ batchSize = CodeBatchSize
    /\ upstream = { <<>> }
    /\ deals = [r \in {1} |-> NewRequest]
    /\ NoApps
    /\ NoCred

NextFull ==
    \/ \E r \in DOMAIN deals : DealsStart(r)
    \/ \E r \in DOMAIN deals : TokenOk(r)
    \/ \E r \in DOMAIN deals : Resume(r)
    \/ \E r \in DOMAIN deals, c \in Range(DEAL_CATEGORIES) : FetchOk(r, c)
    \/ \E r \in DOMAIN deals, c \in Range(DEAL_CATEGORIES) : JsonOk(r, c)

SpecFull == InitFull /\ [][NextFull]_vars

\* the user-credential handlers: callbacks for the users, every profile request
\* answered, the relational store not applying the updates
InitCred ==
    /\ NoDeals
    /\ env = [state |-> Users, expires_in |-> {0, 1}, profileOk |-> {TRUE},
              applied |-> {FALSE}]
    /\ CredInit

SpecCred == InitCred /\ [][CredNext]_vars

\* the user-credential handlers with callbacks for the user and for the key
\* "anonymous", every profile request answered, tokens that last 1 s
InitFrame ==
    /\ NoDeals
    /\ env = [state |-> Keys, expires_in |-> {1}, profileOk |-> {TRUE},
              applied |-> {TRUE}]
    /\ CredInit

SpecFrame == InitFrame /\ [][CredNext]_vars

\* every handler that asks for the user, with every outcome of the identity
\* lookup and of the relational store; tokens expire at once
InitUser ==
    /\ NoDeals
    /\ env = [state |-> Users, expires_in |-> {0}, profileOk |-> {TRUE},
              applied |-> {FALSE, TRUE}]
    /\ CredInit

SpecUser == InitUser /\ [][UserNext]_vars

\* the profile and saved-recipes handlers of two users over a store with a
\* profile row per user and no saved recipe, two requests at a time
InitRows ==
    /\ DEAL_CATEGORIES = <<>>
    /\ batchSize = 1
    /\ upstream = {}
    /\ deals = <<>>
    /\ stores = <<>>
    /\ searches = <<>>
    /\ db = [profiles |-> [u \in Owners |-> 0],
             saved_recipes |-> {},
             reqs |-> [r \in 1..2 |-> IdleRow]]
    /\ NoCred

SpecRows == InitRows /\ [][RowsNext]_vars

\* the token request of request r settles
TokenSettles(r) == TokenOk(r) \/ \E message \in TokenErrors : TokenFail(r, message)

\* an await of the callback of category c settles
CategorySettles(r, c) ==
    /\ c \in Range(DEAL_CATEGORIES)
    /\ \/ FetchNotOk(r, c) \/ FetchError(r, c) \/ FetchOk(r, c)
       \/ JsonError(r, c) \/ JsonOk(r, c)

\* one /api/deals request whose upstream calls all settle: every await that
\* can settle eventually does, and the event loop runs a continuation that
\* is ready
InitLive ==
    /\ \E n \in 0..MaxCats : DEAL_CATEGORIES = Categories(n)
    /\ batchSize \in 1..MaxBatch
    /\ upstream = { <<Milk, Eggs>> }
    /\ deals = [r \in {1} |-> NewRequest]
    /\ NoApps
    /\ NoCred

LiveFairness ==
    /\ WF_vars(TokenSettles(1))
    /\ WF_vars(Resume(1))
    /\ \A c \in 1..MaxCats : WF_vars(CategorySettles(1, c))

SpecLive == InitLive /\ [][Next]_vars /\ LiveFairness

\* two concurrent /api/deals requests over two categories in one batch
InitPair ==
    /\ DEAL_CATEGORIES = Categories(2)
    /\ batchSize = 2
    /\ upstream = { <<>>, <<Milk, Eggs>>, <<Eggs, Tie>> }
    /\ deals = [r \in 1..2 |-> NewRequest]
    /\ NoApps
    /\ NoCred

SpecPair == InitPair /\ [][Next]_vars

\* the handlers that use no user credential: two /api/deals requests over one
\* category, one /api/stores request and one /api/recipes/search request
InitApp ==
    /\ DEAL_CATEGORIES = Categories(1)
    /\ batchSize = 1
    /\ upstream = { <<>>, <<Milk, Eggs>> }
    /\ deals = [r \in 1..2 |-> NewRequest]
    /\ stores = [r \in {1} |-> NewStores]
    /\ searches = [r \in {1} |-> NewSearch]
    /\ db = <<>>
    /\ NoCred

NextApp == DealsNext \/ StoresNext \/ SearchNext

SpecApp == InitApp /\ [][NextApp]_vars

\* the enrichment alone: every non-empty list (the parameter check has passed)
\* of up to MaxItems distinct sale items and
\* every recipe with up to MaxUsed used ingredients
ItemAB == [kind |-> "item", name |-> <<"a", "b">>, savings |-> 100,
           salePrice |-> 300, regularPrice |-> 400, upc |-> 1]
ItemB_A == [kind |-> "item", name |-> <<"B", " ", "a">>, savings |-> 50,
            salePrice |-> 200, regularPrice |-> 250, upc |-> 2]
ItemA == [kind |-> "item", name |-> <<"A">>, savings |-> 25,
          salePrice |-> 150, regularPrice |-> 175, upc |-> 3]

SaleItems == { ItemAB, ItemB_A, ItemA }

UsedNames == { <<"b">>, <<"B", " ", "b">>, <<"a", " ", "b">>, <<"c">>,
               <<"constructor">>, <<>> }

Distinct(s) == \A j, k \in DOMAIN s : j # k => s[j] # s[k]

InitEnrich ==
    /\ DEAL_CATEGORIES = <<>>
    /\ batchSize = 1
    /\ upstream = {}
    /\ deals = <<>>
    /\ stores = <<>>
    /\ db = <<>>
    /\ \E n \in 1..MaxItems, m \in 0..MaxUsed :
         \E ingredients \in [1..n -> SaleItems], used \in [1..m -> UsedNames] :
            /\ Distinct(ingredients)
            /\ searches = [pc |-> "ready",
                           ingredients |-> ingredients,
                           recipe |-> [usedIngredients |-> used,
                                       missedIngredientCount |-> m],
                           enriched |-> MatchLoop(<<>>, <<>>, 0)]
    /\ NoCred

NextEnrich == EnrichStep

SpecEnrich == InitEnrich /\ [][NextEnrich]_vars

\* the aggregation alone: every merged list up to MaxLen over a few deal items,
\* every cap up to MaxCap
Items == { ToDeal(p, c) : p \in {Milk, Eggs, Tie, Dearer}, c \in 1..2 }

InitAgg ==
    /\ DEAL_CATEGORIES = <<>>
    /\ batchSize = 1
    /\ upstream = {}
    /\ \E n \in 0..MaxLen, cap \in 0..MaxCap :
         \E input \in [1..n -> Items] :
            deals = [pc |-> "ready", allProducts |-> input, cap |-> cap, unique |-> <<>>]
    /\ NoApps
    /\ NoCred

\* const unique = allProducts.filter(...).sort(...).slice(0, cap)
AggregateStep ==
    /\ deals.pc = "ready"
    /\ deals' = [deals EXCEPT !.pc = "done",
                              !.unique = Aggregate(deals.allProducts, deals.cap)]
    /\ UNCHANGED <<DEAL_CATEGORIES, batchSize, upstream, appVars, credVars>>

NextAgg == AggregateStep

SpecAgg == InitAgg /\ [][NextAgg]_vars

----------------------------------------------------------------------------
(* Properties of GET /api/deals *)

\* category requests of s that are sent and not settled
InFlight(s) == { c \in Range(DEAL_CATEGORIES) : s.st[c] \in {"fetch", "json"} }

IndexOf(c) == CHOOSE k \in 1..NumCats : DEAL_CATEGORIES[k] = c

\* the number of the batch category c belongs to, counted from 0
ChunkOf(c) == (IndexOf(c) - 1) \div batchSize

Responded(s) == s.pc = "done" /\ s.status = 200

Failed(s, c) == s.resp[c].kind \in {"status", "error", "body"}

\* C1: batches are strictly sequential: a request of a later batch is sent
\* only when every request of every earlier batch has settled, so at most
\* batchSize category requests of one deals request are in flight
C1_BatchesSequential ==
    \A r \in DOMAIN deals :
        LET s == deals[r]
        IN  /\ Cardinality(InFlight(s)) <= batchSize
            /\ \A c, d \in Range(DEAL_CATEGORIES) :
                  ChunkOf(c) < ChunkOf(d) /\ s.st[d] # "idle" => s.st[c] = "done"

\* a second batch of full width is in flight
C1_Witness ==
    \E r \in DOMAIN deals :
        /\ deals[r].i > 0
        /\ batchSize > 1
        /\ Cardinality(InFlight(deals[r])) = batchSize

Ceil(n, b) == (n + b - 1) \div b

\* C2: a request that obtains an app token issues ceil(n / b) batches of at
\* most b calls each, every batch but the last of exactly b, for the program's
\* own n and b
C2_BatchCount ==
    \A r \in DOMAIN deals :
        LET s == deals[r]
        IN  /\ Len(s.batches) <= Ceil(NumCats, batchSize)
            /\ \A k \in DOMAIN s.batches :
                  /\ Len(s.batches[k]) <= batchSize
                  /\ Len(s.batches[k]) >= 1
                  /\ k < Ceil(NumCats, batchSize) => Len(s.batches[k]) = batchSize
            /\ Responded(s) => Len(s.batches) = Ceil(NumCats, batchSize)

\* the response is sent after eight batches, the last of seven calls
C2_Witness ==
    \E r \in DOMAIN deals :
        /\ Responded(deals[r])
        /\ NumCats = CodeNumCategories /\ batchSize = CodeBatchSize
        /\ Len(deals[r].batches) = 8
        /\ Len(deals[r].batches[8]) = 7

\* the part of the merged list that category c pushed
PushedBy(s, c) == SelectSeq(s.allProducts, LAMBDA d : d.category = c)

\* the records of a body that carry a positive promo price
Promoted(body) == SelectSeq(body, LAMBDA p : p.hasPromo /\ p.promo > 0)

SameRecords(pushed, raw) ==
    /\ Len(pushed) = Len(raw)
    /\ \A k \in DOMAIN raw :
          /\ pushed[k].id = raw[k].productId
          /\ pushed[k].regularPrice = raw[k].regular
          /\ pushed[k].salePrice = raw[k].promo

Ids(s) == { s[k].id : k \in DOMAIN s }

\* C3: a failing category request contributes no record and never fails the
\* operation: once a token is obtained the response is a success, built from
\* exactly the records of the requests that succeeded
C3_FailuresDropped ==
    \A r \in DOMAIN deals :
        LET s == deals[r]
        IN  /\ \A c \in Range(DEAL_CATEGORIES) :
                  /\ Failed(s, c) => PushedBy(s, c) = <<>>
                  /\ s.resp[c].kind = "ok" =>
                        SameRecords(PushedBy(s, c), Promoted(s.resp[c].body))
                  /\ s.resp[c].kind = "none" => PushedBy(s, c) = <<>>
            /\ s.batches # <<>> /\ s.pc = "done" =>
                  /\ s.status = 200
                  /\ Ids(s.deals) = Ids(s.allProducts)
                  /\ \A k \in DOMAIN s.deals :
                        \E j \in DOMAIN s.allProducts : s.deals[k] = s.allProducts[j]

\* a response after one request failed by status, one by transport error, and
\* one succeeded with records
C3_Witness ==
    \E r \in DOMAIN deals :
        /\ Responded(deals[r])
        /\ \E c, d, e \in Range(DEAL_CATEGORIES) :
              /\ deals[r].resp[c].kind = "status"
              /\ deals[r].resp[d].kind = "error"
              /\ deals[r].resp[e].kind = "ok"
              /\ PushedBy(deals[r], e) # <<>>
        /\ deals[r].deals # <<>>

\* C7: no two entries of a deals response share an id
C7_NoDuplicateIds ==
    \A r \in DOMAIN deals :
        deals[r].pc = "done" =>
            \A j, k \in DOMAIN deals[r].deals :
                j # k => deals[r].deals[j].id # deals[r].deals[k].id

\* a response of two entries built from a merged list that repeats an id
C7_Witness ==
    \E r \in DOMAIN deals :
        /\ Responded(deals[r])
        /\ Len(deals[r].deals) >= 2
        /\ Len(deals[r].allProducts) > Len(deals[r].deals)

\* the raw records (category, index) with identifier x in the bodies received
RawWith(s, x) ==
    UNION { { <<c, k>> : k \in { j \in DOMAIN s.resp[c].body :
                                   s.resp[c].body[j].productId = x } } :
            c \in { d \in Range(DEAL_CATEGORIES) : s.resp[d].kind = "ok" } }

RawIds == UNION { { b[k].productId : k \in DOMAIN b } : b \in Bodies }

Entries(s, x) == Cardinality({ k \in DOMAIN s.deals : s.deals[k].id = x })

PositiveRaw(s, x) ==
    \E ck \in RawWith(s, x) :
        LET p == s.resp[ck[1]].body[ck[2]] IN p.hasPromo /\ p.promo > 0

\* C8 as stated: whenever the raw records hold two records with the same
\* identifier, the output holds exactly one entry for it
C8_AsStated ==
    \A r \in DOMAIN deals :
        Responded(deals[r]) =>
            \A x \in RawIds :
                Cardinality(RawWith(deals[r], x)) >= 2 => Entries(deals[r], x) = 1

\* C8: the output (within the cap) holds exactly one entry for an identifier
\* when some raw record with it has a positive promo price, however many raw
\* records carry it, and no entry otherwise
C8_OneEntryPerPromotedId ==
    \A r \in DOMAIN deals :
        Responded(deals[r]) /\ Cardinality(Ids(deals[r].allProducts)) <= DealCap =>
            \A x \in RawIds :
                Entries(deals[r], x) = IF PositiveRaw(deals[r], x) THEN 1 ELSE 0

\* an identifier received with a promo price from two categories, once in the
\* output
C8_Witness ==
    \E r \in DOMAIN deals :
        /\ Responded(deals[r])
        /\ \E x \in RawIds :
              /\ \E a, b \in RawWith(deals[r], x) : a[1] # b[1]
              /\ PositiveRaw(deals[r], x)
              /\ Entries(deals[r], x) = 1

FirstWith(s, x) == CHOOSE k \in DOMAIN s : s[k].id = x /\ \A j \in 1..(k - 1) : s[j].id # x

\* C9: the entry kept for an identifier, category included, is the one pushed
\* first onto the merged list, and in that list the records of a batch come
\* before those of every later batch
C9_FirstOccurrenceKept ==
    \A r \in DOMAIN deals :
        LET s == deals[r]
        IN  /\ \A j, k \in DOMAIN s.allProducts :
                  j < k => ChunkOf(s.allProducts[j].category)
                             <= ChunkOf(s.allProducts[k].category)
            /\ s.pc = "done" =>
                  \A k \in DOMAIN s.deals :
                      s.deals[k] = s.allProducts[FirstWith(s.allProducts, s.deals[k].id)]

\* an identifier pushed by two categories of one batch, the later category of
\* the list first, and kept with that category
C9_Witness ==
    \E r \in DOMAIN deals :
        /\ Responded(deals[r])
        /\ \E j, k \in DOMAIN deals[r].allProducts :
              /\ j < k
              /\ deals[r].allProducts[j].id = deals[r].allProducts[k].id
              /\ IndexOf(deals[r].allProducts[j].category)
                    > IndexOf(deals[r].allProducts[k].category)
              /\ j = FirstWith(deals[r].allProducts, deals[r].allProducts[j].id)
              /\ \E n \in DOMAIN deals[r].deals :
                    deals[r].deals[n] = deals[r].allProducts[j]

\* C10: pctOff is non-increasing by index over the deals of a response
C10_NonIncreasing ==
    \A r \in DOMAIN deals :
        deals[r].pc = "done" =>
            \A k \in 1..(Len(deals[r].deals) - 1) :
                deals[r].deals[k].pctOff >= deals[r].deals[k + 1].pctOff

\* a response of three different pctOff values whose merged list was not in
\* that order
C10_Witness ==
    \E r \in DOMAIN deals :
        /\ Responded(deals[r])
        /\ Cardinality({ deals[r].deals[k].pctOff : k \in DOMAIN deals[r].deals }) >= 3
        /\ deals[r].allProducts[1].pctOff < deals[r].deals[1].pctOff

\* C11: the aggregation returns at most cap entries (200 in the handler), and
\* when the deduplicated, sorted sequence is longer it returns its first cap
\* entries: truncation comes last, and nothing left out ranks above anything
\* kept
C11_CappedAfterSort ==
    deals.pc = "done" =>
        LET full == SortDeals(Dedup(deals.allProducts))
        IN  /\ Len(deals.unique) <= deals.cap
            /\ Len(full) > deals.cap => deals.unique = SubSeq(full, 1, deals.cap)
            /\ Len(full) <= deals.cap => deals.unique = full
            /\ Len(deals.unique) = Min(deals.cap, Cardinality(Ids(deals.allProducts)))
            /\ \A j \in DOMAIN deals.allProducts :
                  deals.allProducts[j].id \notin Ids(deals.unique) =>
                    \A k \in DOMAIN deals.unique :
                        deals.unique[k].pctOff >= deals.allProducts[j].pctOff

\* cap entries cut from a longer deduplicated sequence, the best of them from
\* beyond the first cap elements of a merged list that repeats an identifier
C11_Witness ==
    /\ deals.pc = "done"
    /\ deals.cap >= 2
    /\ Len(deals.unique) = deals.cap
    /\ Cardinality(Ids(deals.allProducts)) > deals.cap
    /\ Len(deals.allProducts) > Cardinality(Ids(deals.allProducts))
    /\ deals.unique[1].id \notin Ids(SubSeq(deals.allProducts, 1, deals.cap))

\* the raw record of category c that deal d was made from, if any
MadeFrom(s, d) ==
    { k \in DOMAIN s.resp[d.category].body :
        LET p == s.resp[d.category].body[k]
        IN  /\ p.productId = d.id
            /\ p.regular = d.regularPrice
            /\ p.promo = d.salePrice }

NotPromoted(p) == ~p.hasPromo \/ p.promo <= 0

\* C13: a raw record whose promo price is absent or not above 0 produces no
\* deal: every deal of a response was made from a record with a promo price
\* above 0
C13_NoPromoNoDeal ==
    \A r \in DOMAIN deals :
        Responded(deals[r]) =>
            \A n \in DOMAIN deals[r].deals :
                LET d == deals[r].deals[n]
                IN  /\ d.salePrice > 0
                    /\ MadeFrom(deals[r], d) # {}
                    /\ \A k \in MadeFrom(deals[r], d) :
                          ~NotPromoted(deals[r].resp[d.category].body[k])

\* a body with a record without promo, one with promo 0 and one with a
\* negative promo was received, and the response holds a deal from that body
C13_Witness ==
    \E r \in DOMAIN deals :
        /\ Responded(deals[r])
        /\ \E c \in Range(DEAL_CATEGORIES) :
              LET body == deals[r].resp[c].body
              IN  /\ deals[r].resp[c].kind = "ok"
                  /\ \E k \in DOMAIN body : ~body[k].hasPromo
                  /\ \E k \in DOMAIN body : body[k].hasPromo /\ body[k].promo = 0
                  /\ \E k \in DOMAIN body : body[k].hasPromo /\ body[k].promo < 0
                  /\ \E n \in DOMAIN deals[r].deals : deals[r].deals[n].category = c

\* q is (regular - promo) / regular * 100 rounded to the nearest integer, halves
\* up: q - 1/2 <= 100 (regular - promo) / regular < q + 1/2
RoundHalfUp(q, regular, promo) ==
    /\ regular > 0
    /\ 2 * regular * q - regular <= 200 * (regular - promo)
    /\ 200 * (regular - promo) < 2 * regular * q + regular

\* C14 as stated: the pctOff of every deal is (regular - promo) / regular * 100
\* rounded half up, and lies in 0..100
C14_AsStated ==
    \A r \in DOMAIN deals :
        Responded(deals[r]) =>
            \A n \in DOMAIN deals[r].deals :
                LET d == deals[r].deals[n]
                IN  /\ RoundHalfUp(d.pctOff, d.regularPrice, d.salePrice)
                    /\ 0 <= d.pctOff /\ d.pctOff <= 100

\* a response with a deal of negative pctOff and a deal whose pctOff is one
\* below the quotient rounded half up
C14_Witness ==
    \E r \in DOMAIN deals :
        /\ Responded(deals[r])
        /\ \E n \in DOMAIN deals[r].deals : deals[r].deals[n].pctOff < 0
        /\ \E n \in DOMAIN deals[r].deals :
              LET d == deals[r].deals[n]
              IN  /\ d.regularPrice > d.salePrice
                  /\ RoundHalfUp(d.pctOff + 1, d.regularPrice, d.salePrice)

\* C15 as stated: every deal of a response has salePrice below regularPrice
C15_AsStated ==
    \A r \in DOMAIN deals :
        Responded(deals[r]) =>
            \A n \in DOMAIN deals[r].deals :
                deals[r].deals[n].salePrice < deals[r].deals[n].regularPrice

\* a response with a deal whose salePrice is above its regularPrice
C15_Witness ==
    \E r \in DOMAIN deals :
        /\ Responded(deals[r])
        /\ \E n \in DOMAIN deals[r].deals :
              /\ deals[r].deals[n].regularPrice > 0
              /\ deals[r].deals[n].salePrice > deals[r].deals[n].regularPrice

\* C12: the sort is stable: deals of equal pctOff keep the relative order they
\* have in the merged list
C12_StableSort ==
    deals.pc = "done" =>
        \A j, k \in DOMAIN deals.unique :
            j < k /\ deals.unique[j].pctOff = deals.unique[k].pctOff =>
                FirstWith(deals.allProducts, deals.unique[j].id)
                  < FirstWith(deals.allProducts, deals.unique[k].id)

\* two deals of equal pctOff returned in merged-list order, in front of a deal
\* that the merged list had before them
C12_Witness ==
    /\ deals.pc = "done"
    /\ Len(deals.unique) >= 3
    /\ deals.unique[1].pctOff = deals.unique[2].pctOff
    /\ deals.unique[1].id > deals.unique[2].id
    /\ deals.allProducts[1].pctOff < deals.unique[1].pctOff

----------------------------------------------------------------------------
(* Properties of the credential map *)

UserRequest(s) == s.kind \in {"coupons", "cart"}

\* C4: a credential whose expiry is not after the clock makes the handler call
\* the token endpoint exactly once, and the upstream request is sent only
\* when that call has returned; a credential that expires later makes it call
\* the token endpoint not at all
C4_RefreshBeforeUpstream ==
    \A r \in Slots :
        LET s == reqs[r]
        IN  UserRequest(s) =>
              /\ s.refreshCalls <= 1 /\ s.upstreamCalls <= 1
              /\ s.pc = "refresh" =>
                    s.sawExpired /\ s.refreshCalls = 1 /\ s.upstreamCalls = 0
              /\ s.pc = "upstream" => s.upstreamCalls = 1
              /\ s.upstreamCalls = 1 =>
                    s.refreshCalls = IF s.sawExpired THEN 1 ELSE 0
              /\ ~s.sawExpired => s.refreshCalls = 0

\* one request at its upstream call after a refresh, another at its upstream
\* call without one
C4_Witness ==
    \E r, q \in Slots :
        /\ UserRequest(reqs[r]) /\ UserRequest(reqs[q])
        /\ reqs[r].pc = "upstream" /\ reqs[r].sawExpired /\ reqs[r].refreshCalls = 1
        /\ reqs[q].pc = "upstream" /\ ~reqs[q].sawExpired /\ reqs[q].refreshCalls = 0

\* C5: once the disconnect of a user has completed, the map holds no entry
\* for that user until a callback stores one
C5_DestroyedOnDisconnect ==
    \A u \in Users : disconnected[u] = "yes" => krogerTokens[u] = NoRef

\* the disconnect has completed, no callback has stored since, and a request
\* that was suspended in its refresh has put the entry back
C5_Witness ==
    \E u \in Users, r \in Slots :
        /\ disconnected[u] = "yes"
        /\ krogerTokens[u] # NoRef
        /\ UserRequest(reqs[r]) /\ reqs[r].user = u
        /\ reqs[r].pc = "upstream" /\ reqs[r].refreshCalls = 1
        /\ krogerTokens[u] = reqs[r].krogerData

FromOneResponse(cred, grant) ==
    /\ cred.accessToken = grant.access_token
    /\ cred.expiresAt = grant.storedAt + grant.expires_in * MsPerSecond

\* C6: whatever the interleaving of concurrent refreshes, the accessToken and
\* expiresAt of a credential come from one and the same token response, and a
\* request whose refresh has returned has gone on to its upstream call
C6_RefreshIdempotent ==
    /\ \A o \in Live(krogerTokens, reqs) : FromOneResponse(heap[o], grants[o])
    /\ \A u \in Users :
          krogerTokens[u] # NoRef => krogerTokens[u] \in Live(krogerTokens, reqs)
    /\ \A r \in Slots :
          UserRequest(reqs[r]) /\ reqs[r].krogerData # NoRef =>
            /\ reqs[r].pc \in {"refresh", "upstream", "done"}
            /\ reqs[r].pc = "done" /\ reqs[r].upstreamCalls = 0 =>
                  reqs[r].status = 500 /\ reqs[r].refreshCalls = 1

\* two requests of one user saw the same expired credential, both refreshed,
\* and both are at their upstream call
C6_Witness ==
    \E r, q \in Slots :
        /\ r # q
        /\ UserRequest(reqs[r]) /\ UserRequest(reqs[q])
        /\ reqs[r].user = reqs[q].user
        /\ reqs[r].krogerData = reqs[q].krogerData
        /\ reqs[r].pc = "upstream" /\ reqs[r].refreshCalls = 1
        /\ reqs[q].pc = "upstream" /\ reqs[q].refreshCalls = 1
        /\ heap[reqs[r].krogerData].accessToken = 3

\* the refresh of request s was answered with a failure
RefreshFailed(s) ==
    UserRequest(s) /\ s.pc = "done" /\ s.refreshCalls = 1 /\ s.upstreamCalls = 0

\* C16 as stated: when the token endpoint refuses the refresh, the request is
\* answered with 401
C16_AsStated ==
    \A r \in Slots : RefreshFailed(reqs[r]) => reqs[r].status = 401

\* a request whose refresh was refused is answered with 500
C16_Witness ==
    \E r \in Slots : RefreshFailed(reqs[r]) /\ reqs[r].status = 500

----------------------------------------------------------------------------
(* Properties of the handlers that use no user credential *)

\* C17 as stated: a client-credentials grant is requested only when no app
\* credential is held (or the held one has expired)
C17_AsStated ==
    /\ \A r \in DOMAIN deals : deals[r].tokenCalls > 0 => ~deals[r].held
    /\ \A r \in DOMAIN stores : stores[r].tokenCalls > 0 => ~stores[r].held

\* a second /api/deals request asks for a token after the first was granted one
C17_Witness ==
    \E r, q \in DOMAIN deals :
        /\ r # q
        /\ deals[q].pc = "done" /\ deals[q].status = 200
        /\ deals[r].pc = "token" /\ deals[r].held /\ deals[r].tokenCalls = 1

\* C18: a request without its required parameter (zip, locationId, a
\* non-empty ingredients list) is answered with 400, and no token request and
\* no search request is made for it
C18_MissingParameter ==
    /\ \A r \in DOMAIN deals :
          /\ deals[r].locationId = "absent" =>
                /\ deals[r].pc = "done" /\ deals[r].status = 400
                /\ deals[r].tokenCalls = 0
                /\ \A c \in Range(DEAL_CATEGORIES) : deals[r].issued[c] = 0
          /\ deals[r].status = 400 => deals[r].locationId = "absent"
    /\ \A r \in DOMAIN stores :
          /\ stores[r].zip = "absent" =>
                /\ stores[r].pc = "done" /\ stores[r].status = 400
                /\ stores[r].tokenCalls = 0 /\ stores[r].upstreamCalls = 0
          /\ stores[r].status = 400 => stores[r].zip = "absent"
    /\ \A r \in DOMAIN searches :
          /\ searches[r].ingredients \in Missing =>
                /\ searches[r].pc = "done" /\ searches[r].status = 400
                /\ searches[r].upstreamCalls = 0
          /\ searches[r].status = 400 => searches[r].ingredients \in Missing

\* the three handlers have each answered a request without its parameter,
\* and another /api/deals request with its parameter has been served
C18_Witness ==
    /\ \E r, q \in DOMAIN deals :
          /\ deals[r].locationId = "absent" /\ deals[r].status = 400
          /\ deals[q].locationId = "present" /\ deals[q].status = 200
    /\ \E r \in DOMAIN stores : stores[r].zip = "absent" /\ stores[r].status = 400
    /\ \E r \in DOMAIN searches :
          searches[r].ingredients = "empty" /\ searches[r].status = 400

----------------------------------------------------------------------------
(* Properties of the user-scoped handlers *)

\* nothing was done on behalf of request s beyond the identity lookup
Untouched(s) ==
    /\ s.storeOps = 0 /\ s.mapOps = 0
    /\ s.refreshCalls = 0 /\ s.upstreamCalls = 0

\* C19: on /api/profile, /api/recipes/saved, /api/coupons and /api/cart, a
\* request for which the identity lookup gave no user performs no
\* relational-store operation, no credential-map operation and no retail
\* call, and the response it gets is 401
C19_UnauthenticatedFirst ==
    \A r \in Slots :
        (reqs[r].kind \in UserScoped /\ reqs[r].user = "") =>
            /\ Untouched(reqs[r])
            /\ reqs[r].status \in {0, 401}
            /\ (reqs[r].pc = "done" /\ ~reqs[r].escaped) => reqs[r].status = 401

\* a saved-recipes request without identity is answered 401 while a request
\* of an identified user waits for the relational store
C19_Witness ==
    \E r, q \in Slots :
        /\ reqs[r].kind = "unsave" /\ reqs[r].user = ""
        /\ reqs[r].pc = "done" /\ reqs[r].status = 401
        /\ reqs[q].kind = "profile" /\ reqs[q].pc = "store" /\ reqs[q].storeOps = 1

\* C20 as stated: every request that has ended received a response, no
\* rejection left its handler, and on the JSON endpoints a failed collaborator
\* gives an error status
C20_AsStated ==
    \A r \in Slots :
        reqs[r].pc = "done" =>
            /\ ~reqs[r].escaped
            /\ reqs[r].status # 0
            /\ (reqs[r].failed /\ reqs[r].kind # "callback") => reqs[r].status >= 400

\* the identity lookup of a /api/coupons request rejects: the handler ends
\* without having sent a response
C20_Witness ==
    \E r \in Slots :
        /\ reqs[r].kind = "coupons" /\ reqs[r].pc = "done"
        /\ reqs[r].escaped /\ reqs[r].status = 0

----------------------------------------------------------------------------
(* Properties of the recipe enrichment *)

\* the sum of the savings of a set of sale items
RECURSIVE SumSavings(_)
SumSavings(S) ==
    IF S = {} THEN 0
    ELSE LET x == CHOOSE y \in S : TRUE IN x.savings + SumSavings(S \ {x})

\* C21 as stated: totalSavings is the sum of the savings of the distinct
\* matched sale items, each of which appears once in usedSaleItems
C21_AsStated ==
    searches.pc = "done" =>
        /\ Distinct(searches.enriched.usedSaleItems)
        /\ searches.enriched.totalSavings =
              SumSavings(Range(searches.enriched.usedSaleItems))

\* two used ingredients of one recipe match the same sale item, and its
\* savings have been added twice
C21_Witness ==
    /\ searches.pc = "done"
    /\ searches.ingredients = <<ItemAB>>
    /\ searches.recipe.usedIngredients = << <<"b">>, <<"a", " ", "b">> >>
    /\ searches.enriched.totalSavings = 200
    /\ Len(searches.enriched.usedSaleItems) = 2

\* the matching rule: the lowercase first token of the ingredient name is a
\* substring of the lowercase name of the sale item
Matches(item, name) == Includes(ToLowerCase(item.name), KeyOf(name))

\* C22 as stated: a used ingredient is attributed a sale item if and only if
\* some submitted sale item matches it, and the attributed item is a
\* submitted item that matches
C22_AsStated ==
    searches.pc = "done" =>
        \A k \in DOMAIN searches.recipe.usedIngredients :
            LET name == searches.recipe.usedIngredients[k]
                deal == searches.enriched.attributed[k]
            IN  /\ deal.kind # "undefined" <=>
                      \E item \in Range(searches.ingredients) : Matches(item, name)
                /\ deal.kind # "undefined" =>
                      /\ deal \in Range(searches.ingredients)
                      /\ Matches(deal, name)

\* the used ingredient "constructor" is attributed the inherited property of
\* the lookup object although the one submitted sale item does not match
C22_Witness ==
    /\ searches.pc = "done"
    /\ searches.ingredients = <<ItemA>>
    /\ searches.recipe.usedIngredients = << <<"constructor">> >>
    /\ Len(searches.enriched.usedSaleItems) = 1
    /\ searches.enriched.attributed[1] = ObjectFunction

----------------------------------------------------------------------------
(* Properties of the relational store's rows *)

\* C23: the rows an operation reads or changes for a request authenticated as
\* user U are rows owned by U, and a request without user touches none
C23_OwnRowsOnly ==
    \A r \in DOMAIN db.reqs :
        /\ db.reqs[r].touched \subseteq {db.reqs[r].user}
        /\ db.reqs[r].user = "" => db.reqs[r].touched = {}

\* u2 has asked to delete the recipe with the id of u1's recipe: the request
\* is answered and u1's row is still there, while u1 reads its own rows
C23_Witness ==
    \E r, q \in DOMAIN db.reqs :
        /\ db.reqs[r].kind = "unsave" /\ db.reqs[r].user = "u2"
        /\ db.reqs[r].pc = "done" /\ db.reqs[r].status = 200
        /\ db.reqs[r].touched = {}
        /\ [id |-> db.reqs[r].id, user_id |-> "u1"] \in db.saved_recipes
        /\ db.reqs[q].kind = "saved" /\ db.reqs[q].touched = {"u1"}

----------------------------------------------------------------------------
(* Properties of GET /api/deals: requests sent, isolation, control flow *)

\* C24: one deals request sends the product search of a category term at
\* most once, exactly once for every term whose batch has been started, and
\* exactly once for every term when it responds; a failed request is not
\* sent again
C24_OncePerCategory ==
    \A r \in DOMAIN deals :
        /\ \A c \in Range(DEAL_CATEGORIES) :
              /\ deals[r].issued[c] <= 1
              /\ deals[r].issued[c] = 1 <=> deals[r].st[c] # "idle"
              /\ Failed(deals[r], c) => deals[r].st[c] = "done"
        /\ Responded(deals[r]) =>
              \A c \in Range(DEAL_CATEGORIES) : deals[r].issued[c] = 1

\* a response after two batches in which one request failed by status, one
\* by transport error and one succeeded, each sent once
C24_Witness ==
    \E r \in DOMAIN deals :
        /\ Responded(deals[r])
        /\ Len(deals[r].batches) >= 2
        /\ \E c, d, e \in Range(DEAL_CATEGORIES) :
              /\ deals[r].resp[c].kind = "status" /\ deals[r].issued[c] = 1
              /\ deals[r].resp[d].kind = "error" /\ deals[r].issued[d] = 1
              /\ deals[r].resp[e].kind = "ok" /\ deals[r].issued[e] = 1


\* the orders in which the terms of S may have completed
Orders(S) ==
    { f \in [1..Cardinality(S) -> S] : \A j, k \in DOMAIN f : j # k => f[j] # f[k] }

\* what request s pushes when its successful category requests complete in
\* the given order
RECURSIVE PushedInOrder(_, _, _)
PushedInOrder(s, order, k) ==
    IF k = 0 THEN <<>>
    ELSE PushedInOrder(s, order, k - 1)
           \o Products(s.resp[order[k]].body, order[k])

Succeeded(s) == { c \in Range(DEAL_CATEGORIES) : s.resp[c].kind = "ok" }

\* C25: the list a deals request has accumulated is made of the products of
\* its own successful category responses, in an order of their completion,
\* and the list it returns is the aggregation of that list: what it would
\* return running alone with these responses in this order
C25_NoSharedState ==
    \A r \in DOMAIN deals :
        /\ \E order \in Orders(Succeeded(deals[r])) :
              deals[r].allProducts =
                  PushedInOrder(deals[r], order, Cardinality(Succeeded(deals[r])))
        /\ Responded(deals[r]) =>
              deals[r].deals = Aggregate(deals[r].allProducts, DealCap)

\* two requests have responded after receiving different bodies, one of
\* them with its second category completing first, and their lists differ
C25_Witness ==
    \E r, q \in DOMAIN deals :
        /\ r # q
        /\ Responded(deals[r]) /\ Responded(deals[q])
        /\ deals[r].deals # deals[q].deals
        /\ deals[q].deals = <<>>
        /\ Len(deals[r].allProducts) = 4
        /\ deals[r].allProducts[1].category = 2
        /\ deals[r].allProducts[4].category = 1


\* request s has sent a category request
SentAny(s) == \E c \in Range(DEAL_CATEGORIES) : s.issued[c] > 0

\* C26: a deals request sends category requests only after its one token
\* request has returned a token; it responds 200 only when every category
\* request has settled, with the aggregation of what was pushed; and when the
\* token request fails it has sent no category request and responds 500 with
\* the message of the failure, the text of the token response for a
\* non-success status
C26_ControlFlow ==
    \A r \in DOMAIN deals :
        LET s == deals[r]
        IN  /\ s.pc \in {"start", "token"} => ~SentAny(s)
            /\ SentAny(s) => s.tokenCalls = 1 /\ s.status # 500
            /\ Responded(s) =>
                  /\ s.tokenCalls = 1
                  /\ \A c \in Range(DEAL_CATEGORIES) : s.st[c] = "done"
                  /\ s.deals = Aggregate(s.allProducts, DealCap)
                  /\ s.error = ""
            /\ s.status = 500 =>
                  /\ s.pc = "done" /\ s.tokenCalls = 1
                  /\ ~SentAny(s) /\ s.batches = <<>> /\ s.deals = <<>>
                  /\ s.error \in TokenErrors

\* the token endpoint answered with a non-success status: 500 with its text,
\* no category of a list of several terms requested
C26_Witness ==
    \E r \in DOMAIN deals :
        /\ NumCats >= 2
        /\ deals[r].status = 500 /\ deals[r].error = "response text"
        /\ deals[r].tokenCalls = 1 /\ ~SentAny(deals[r])


\* a category request of s has not settled: s is suspended at its batch, no
\* later batch has been started and no response has been sent
Stalled(s) ==
    InFlight(s) # {} =>
        /\ s.pc = "batch" /\ s.status = 0
        /\ \A c \in InFlight(s), d \in Range(DEAL_CATEGORIES) :
              ChunkOf(d) > ChunkOf(c) => s.st[d] = "idle"

\* C27: when every upstream call settles, a deals request with a locationId
\* eventually responds, and its response is never replaced; as long as a
\* category request has not settled, its batch, the later batches and the
\* response wait
C27_EventuallyResponds ==
    /\ (deals[1].pc = "token") ~> (deals[1].pc = "done" /\ deals[1].status # 0)
    /\ [][deals[1].status # 0 => deals'[1] = deals[1]]_vars
    /\ []Stalled(deals[1])

\* the response has been sent after a last batch in which one upstream call
\* failed at the body and one succeeded
C27_Witness ==
    /\ Responded(deals[1])
    /\ Len(deals[1].batches) >= 2
    /\ \E c, d \in Range(BatchOf(deals[1].i)) :
          /\ deals[1].resp[c].kind = "body"
          /\ deals[1].resp[d].kind = "ok"

----------------------------------------------------------------------------
(* Properties of the credential map: frame conditions *)

\* krogerTokens.get(key) in map and heap, NoObj when there is no entry
CredOf(map, h, key) == IF map[key] = NoRef THEN NoObj ELSE h[map[key]]

\* this step is the return of refreshKrogerToken to handler r
RefreshReturns(r) == reqs[r].pc = "refresh" /\ reqs'[r].pc = "upstream"

\* this step is handler r finding an unexpired credential
FindsUnexpired(r) == reqs[r].pc = "getUser" /\ reqs'[r].pc = "upstream"

\* C28 as stated: a successful refresh leaves refreshToken and profile of the
\* user's stored credential and the credentials of all other keys as they
\* were, and a request that finds an unexpired credential leaves the map as
\* it was
C28_AsStated ==
    [][\A r \in Slots :
         /\ RefreshReturns(r) =>
               LET u == reqs[r].user
                   before == CredOf(krogerTokens, heap, u)
                   after == CredOf(krogerTokens', heap', u)
               IN  /\ before # NoObj /\ after # NoObj
                   /\ after.refreshToken = before.refreshToken
                   /\ after.profile = before.profile
                   /\ \A k \in Keys \ {u} :
                         CredOf(krogerTokens', heap', k) = CredOf(krogerTokens, heap, k)
         /\ FindsUnexpired(r) =>
               \A k \in Keys :
                   CredOf(krogerTokens', heap', k) = CredOf(krogerTokens, heap, k)
      ]_vars

\* a refresh has returned to a request of user u after a callback for u had
\* stored a new credential: the map holds the request's old object again
C28_Witness ==
    \E r, q \in Slots :
        /\ reqs[q].kind = "callback" /\ reqs[q].pc = "cbSupabase"
        /\ reqs[r].pc = "upstream" /\ reqs[r].refreshCalls = 1
        /\ reqs[r].user = reqs[q].user
        /\ krogerTokens[reqs[r].user] = reqs[r].krogerData
        /\ heap[reqs[r].krogerData].profile = 1


\* this step is refreshKrogerToken throwing in handler r
RefreshThrows(r) == reqs[r].pc = "refresh" /\ reqs'[r].pc = "done"

\* C29: a failed refresh leaves every stored credential as it was and the
\* request ends without having sent its loyalty or cart request; every
\* request that reads an expired credential, a later one for the same user
\* included, attempts a refresh
C29_FailedRefreshKeepsCredential ==
    /\ [][\A r \in Slots :
            RefreshThrows(r) =>
                /\ \A k \in Keys :
                      CredOf(krogerTokens', heap', k) = CredOf(krogerTokens, heap, k)
                /\ reqs'[r].upstreamCalls = 0
                /\ reqs'[r].status = 500
         ]_vars
    /\ [](\A r \in Slots :
            (reqs[r].kind \in {"coupons", "cart"} /\ reqs[r].sawExpired) =>
                reqs[r].refreshCalls = 1)

\* a refresh has failed for a request, the stored credential is the one it
\* read, still expired and never refreshed, and another request of the same
\* user that read it is attempting its own refresh
C29_Witness ==
    \E r, q \in Slots :
        /\ RefreshFailed(reqs[r]) /\ reqs[r].pc = "done" /\ reqs[r].upstreamCalls = 0
        /\ reqs[q].pc = "refresh" /\ reqs[q].user = reqs[r].user
        /\ reqs[q].krogerData = reqs[r].krogerData
        /\ krogerTokens[reqs[r].user] = reqs[r].krogerData
        /\ Expired(heap[reqs[r].krogerData], now)
        /\ heap[reqs[r].krogerData].accessToken = 1


\* the steps of the callback handler r
CallbackRefused(r) ==
    reqs[r].pc = "idle" /\ reqs'[r].kind = "callback" /\ reqs'[r].pc = "done"

ExchangeFails(r) == reqs[r].pc = "cbToken" /\ reqs'[r].pc = "done"

CredentialStored(r) ==
    reqs[r].pc = "cbProfile" /\ reqs'[r].mapOps = reqs[r].mapOps + 1

MapUnchanged ==
    \A k \in Keys : CredOf(krogerTokens', heap', k) = CredOf(krogerTokens, heap, k)

\* C30: a callback with an error or without code, and one whose code
\* exchange fails, leave the credential map and kroger_connected as they
\* were and redirect to the error page, having done no map and no store
\* operation; a callback writes to the map only after its exchange
\* succeeded, and then writes one entry, under the key given as state, made
\* of the exchange's tokens, leaving every other entry as it was
C30_StoredOnlyAfterExchange ==
    /\ [][\A r \in Slots :
            /\ (CallbackRefused(r) \/ ExchangeFails(r)) =>
                  /\ MapUnchanged
                  /\ kroger_connected' = kroger_connected
                  /\ reqs'[r].status = 302 /\ reqs'[r].location = "error"
                  /\ reqs'[r].mapOps = 0 /\ reqs'[r].storeOps = 0
            /\ CredentialStored(r) =>
                  LET key == reqs[r].user
                      after == CredOf(krogerTokens', heap', key)
                  IN  /\ after # NoObj
                      /\ after.accessToken = 1 /\ after.refreshToken = 1
                      /\ after.expiresAt = now + reqs[r].expires_in * MsPerSecond
                      /\ \A k \in Keys \ {key} :
                            CredOf(krogerTokens', heap', k) = CredOf(krogerTokens, heap, k)
                      /\ reqs'[r].mapOps = 1
                      /\ kroger_connected' = kroger_connected
         ]_vars
    /\ [](\A r \in Slots :
            (reqs[r].kind = "callback" /\ reqs[r].mapOps > 0) =>
                reqs[r].pc \in {"cbSupabase", "done"} /\ ~reqs[r].failed)

\* a callback for "anonymous" has stored its entry and redirected to the
\* success page while the entry of u1, stored before, is still there, and a
\* callback whose exchange failed has left both
C30_Witness ==
    \E r \in Slots :
        /\ reqs[r].kind = "callback" /\ reqs[r].pc = "done"
        /\ reqs[r].failed /\ reqs[r].location = "error" /\ reqs[r].user = "u1"
        /\ krogerTokens["u1"] # NoRef /\ krogerTokens[Anonymous] # NoRef
        /\ krogerTokens["u1"] # krogerTokens[Anonymous]
        /\ kroger_connected["u1"]

====
